---- MODULE Spec2Model ----
(***************************************************************************)
(* Echoes (WhatsApp chat archive): the storage engine of src/db/db.ts on   *)
(* its single shared SQLite connection, and the line-oriented parse        *)
(* orchestrator of src/modules/parser/index.ts.                            *)
(***************************************************************************)
EXTENDS Integers, Sequences, FiniteSets, TLC

\* ------------------------------------------------------------------------
\* Bounds of the model
\* ------------------------------------------------------------------------
\* messages in one ParseResult handed to insertParsedChat
MaxMsgs == 2
\* insertParsedChat calls started in one behaviour
MaxCalls == 1
\* further insertParsedChat calls started while another one is running
MaxOverlap == 1
\* largest page size (limit) of a paginated read
MaxLimit == 2
\* imports committed, on top of the initial store, before the reads
MaxStored == 1
\* longest file content, in characters, read in chunks
MaxText == 3
\* largest window asked of getMessageNeighborhood
MaxWindow == 3
\* longest string handed to sanitizeContent, in characters
MaxContent == 3
\* rows of a page of the chat screen (PAGE_SIZE, scaled down)
PageSize == 1
\* most calls of fetchMessages on one chat screen
MaxFetches == 4
\* pieces of text in a message body given to the detector
MaxTokens == 2
\* largest number in the day and month fields of a date
MaxField == 31
\* longest search query, in characters
MaxQuery == 3
\* lines read after the platform was detected
MaxBody == 2
\* lines read beyond the detection limit while the platform is unknown
MaxLate == 2
\* "we've read 50 lines"
DetectLimit == 50
\* delete / update statements issued in one behaviour
MaxOps == 1

Callers == {1, 2}   \* the activations of insertParsedChat that may overlap
ChatNames == {"Family"}
SenderNames == {"Alice", "Bob"}
RawSenders == SenderNames \cup {"System"}
Contents == {"hi", "yo"}
NULL == 0

\* no URI: mediaUri undefined in a Message, media_uri NULL in a row
NoUri == ""
DefaultLimit == 50

\* ------------------------------------------------------------------------
\* State
\* ------------------------------------------------------------------------
VARIABLES
    store,          \* tables of the database as the shared connection sees them
    inTransaction,  \* the connection has an open transaction
    snapshot,       \* the tables as they were at BEGIN (what ROLLBACK restores)
    call,           \* per caller: the activation record of insertParsedChat
    nCalls,         \* insertParsedChat calls started so far
    nOps,           \* delete / update statements issued so far
    lastOp,         \* the last storage statement issued outside insertParsedChat
    lastRead        \* the rows returned by the last read operation

dbvars == <<store, inTransaction, snapshot, call, nCalls, nOps, lastOp, lastRead>>

\* parseWhatsAppChat (one pass over the lines of one export)
VARIABLES
    pc,                 \* "loop" while lines are read, "done" after the return
    platform,           \* 'unknown' | 'android' | 'ios'
    currentLineNumber,
    messages,           \* Message[] built so far
    senders,            \* Set<string> in insertion order
    warnings,           \* string[] (the kind of each warning)
    lastMessage,        \* index in messages of the active message, 0 for null
    rawLine,            \* the line read by the last iteration
    nRead,              \* lines read since the platform was detected
    firstMatch,         \* the first input line with a timestamp prefix:
                        \* its dialect, its line number, and whether
                        \* DetectLimit non-blank lines came before it
    unclassified,       \* non-blank lines read while no line had matched
    consumed            \* the raw lines read from that line on, in input order

pvars == <<pc, platform, currentLineNumber, messages, senders, warnings,
           lastMessage, rawLine, nRead, firstMatch, unclassified, consumed>>

\* readLinesInChunks feeding one LineBuffer
VARIABLES
    text,       \* the decoded content of the file
    fed,        \* number of characters handed to addChunk so far
    buffer,     \* LineBuffer.buffer
    emitted,    \* the arrays returned by addChunk so far, concatenated
    finished,   \* addChunk was called with isLastChunk = true
    straddled   \* a chunk ended between a CR and the LF that follows it

rvars == <<text, fed, buffer, emitted, finished, straddled>>

\* a pure function applied to an argument
VARIABLES
    input,      \* the function and its arguments
    output      \* what the call returned

fvars == <<input, output>>

\* the import screen (handleImport)
VARIABLES
    mediaMap    \* the entries of the Map of extractMediaFromDirectory: lower-
                \* cased file name and local URI; empty when it is null

\* the chat screen (ChatScreen)
VARIABLES
    uiMessages, \* messages: the rows loaded so far
    isLoading,
    page,
    hasMore,
    fetching,   \* the calls of fetchMessages waiting for getMessages
    nFetches    \* the calls of fetchMessages made so far

cvars == <<uiMessages, isLoading, page, hasMore, fetching, nFetches>>

svars == <<mediaMap, cvars>>

vars == <<dbvars, pvars, rvars, fvars, svars>>

\* ------------------------------------------------------------------------
\* Text.  A string is a sequence of characters.  "T" stands for a Dialect-B
\* (Android) timestamp prefix such as "20/06/2021, 14:30 - " and "I" for a
\* Dialect-A (iOS) prefix such as "[20/06/2021, 14:30:00] ", both ending in
\* their space; "LRM" is the left-to-right mark U+200E; NL is the newline.
\* ------------------------------------------------------------------------
NL == "\n"
CR == "\r"
SP == " "
Marks == {"LRM"}

\* the lines an export is made of
Lines ==
    { <<>>,                               \* empty line
      <<SP>>,                             \* whitespace only
      <<"LRM">>,                          \* a lone directional mark
      <<"a">>,                            \* plain text
      <<"b", SP, "LRM">>,                 \* text, then a space and a mark
      <<"T", "a", ":", SP, "b">>,         \* Android head, sender a, body b
      <<"LRM", "T", "b">>,                \* Android system head after a mark
      <<"I", "a", ":", SP, "a">>,         \* iOS head, sender a, body a
      <<"T", "System", ":", SP, "b">> }   \* Android head of a participant
                                          \* whose name is System

\* String.prototype.replace(/[\u200E\u200F\u202A-\u202E\u2066-\u2069]/g, '')
RECURSIVE StripMarks(_)
StripMarks(t) ==
    IF t = <<>> THEN <<>>
    ELSE IF Head(t) \in Marks THEN StripMarks(Tail(t))
         ELSE <<Head(t)>> \o StripMarks(Tail(t))

\* String.prototype.trim()
RECURSIVE TrimStart(_)
TrimStart(t) ==
    IF t # <<>> /\ Head(t) \in {SP, NL, CR} THEN TrimStart(Tail(t)) ELSE t

RECURSIVE TrimEnd(_)
TrimEnd(t) ==
    IF t # <<>> /\ t[Len(t)] \in {SP, NL, CR}
    THEN TrimEnd(SubSeq(t, 1, Len(t) - 1)) ELSE t

Trim(t) == TrimEnd(TrimStart(t))

\* the sanitizer with the two steps in the other order
sanitizeContentTrimFirst(content) ==
    IF content = <<>> THEN <<>> ELSE StripMarks(Trim(content))

\* sanitizeContent(content)
sanitizeContent(content) ==
    IF content = <<>> THEN <<>> ELSE Trim(StripMarks(content))

\* ANDROID_REGEX.timestampPrefix.test(line): the prefix, its closing space
\* included, so something follows it in a trimmed line
AndroidPrefix(line) == Len(line) >= 2 /\ line[1] = "T"

\* IOS_REGEX.timestampPrefix.test(line)
IosPrefix(line) == Len(line) >= 2 /\ line[1] = "I"

\* line.substring(match[0].length)
BodyPart(line) == Tail(line)

\* senderAndMessage /^(.*?):\s(.*)/: the position of the first ": ", or 0
RECURSIVE ColonSpace(_, _)
ColonSpace(t, k) ==
    IF k >= Len(t) THEN 0
    ELSE IF t[k] = ":" /\ t[k + 1] = SP THEN k
         ELSE ColonSpace(t, k + 1)

\* senderStr and messageBody of a head line's remainder
SenderAndMessage(bodyPart) ==
    LET k == ColonSpace(bodyPart, 1)
    IN IF k = 0
       THEN [sender |-> <<"System">>, body |-> bodyPart]
       ELSE [sender |-> SubSeq(bodyPart, 1, k - 1),
             body |-> SubSeq(bodyPart, k + 2, Len(bodyPart))]

\* ------------------------------------------------------------------------
\* Schema (initDatabase): empty tables, AUTOINCREMENT counters at 0
\* ------------------------------------------------------------------------
EmptyStore ==
    [ chats |-> {}, senders |-> {}, messages |-> {}, messages_fts |-> {},
      sqlite_sequence |-> [chats |-> 0, senders |-> 0, messages |-> 0] ]

\* The ParseResults parseWhatsAppChat can hand over: at least one message
\* (handleImport returns early on none); senders is the Set of non-System
\* sender names in order of first appearance.
ParsedMessages ==
    { [id |-> 0, rawSender |-> "Alice", content |-> "hi", timestamp |-> 100,
       type |-> "text", isMediaOmitted |-> FALSE, mediaUri |-> NoUri],
      [id |-> 0, rawSender |-> "System", content |-> "yo", timestamp |-> 99,
       type |-> "system", isMediaOmitted |-> FALSE, mediaUri |-> NoUri] }

RECURSIVE SendersOf(_)
SendersOf(msgs) ==
    IF msgs = <<>> THEN <<>>
    ELSE LET front == SendersOf(SubSeq(msgs, 1, Len(msgs) - 1))
             s == msgs[Len(msgs)].rawSender
         IN IF s = "System" \/ \E i \in 1..Len(front) : front[i] = s
            THEN front ELSE Append(front, s)

\* id: currentLineNumber, // Temporary proxy ID -- the number of the head line
Numbered(msgs) == [k \in 1..Len(msgs) |-> [msgs[k] EXCEPT !.id = k]]

MessageSeqs ==
    { Numbered(ms) : ms \in UNION { [1..n -> ParsedMessages] : n \in 1..MaxMsgs } }

ParseResults ==
    { [name |-> nm, senders |-> SendersOf(ms), messages |-> ms] :
        nm \in ChatNames, ms \in MessageSeqs }

NoData == [name |-> "", senders |-> <<>>, messages |-> <<>>]

NoOp == [op |-> "none", id |-> 0]
NoRead == [op |-> "none", chatId |-> 0, limit |-> 0, offset |-> 0, target |-> 0,
           query |-> <<>>,
           chats |-> {}, messages |-> <<>>,
           stats |-> [totalMessages |-> 0, activeDays |-> 0],
           topSenders |-> <<>>, dayUsage |-> <<>>, hourUsage |-> <<>>]

IdleCall ==
    [ pc |-> "idle", parsedData |-> NoData, insertedChatId |-> 0,
      senderNameToIdMap |-> <<>>, i |-> 0, failed |-> FALSE,
      import |-> 0, total |-> 0, rowids |-> {} ]

\* ------------------------------------------------------------------------
\* Statements on the connection
\* ------------------------------------------------------------------------
ChatIds(s) == { c.id : c \in s.chats }

\* INSERT INTO chats (...) VALUES (...): AUTOINCREMENT id.  Rows carry two
\* history fields that are no columns: import, the ordinal of the
\* insertParsedChat call that inserted the row (0 for the earlier import),
\* and for a message rawSender, the _rawSender of the parsed message, and
\* line, the number of its head line in the export
InsertChat(s, nm, imp) ==
    LET id == s.sqlite_sequence.chats + 1
    IN [s EXCEPT !.chats = @ \cup {[id |-> id, name |-> nm, import |-> imp]},
                 !.sqlite_sequence.chats = id]

\* the insert without the UNIQUE constraint on senders.name
InsertSenderNoUnique(s, nm) ==
    LET id == s.sqlite_sequence.senders + 1
    IN [s EXCEPT !.senders = @ \cup {[id |-> id, name |-> nm]},
                 !.sqlite_sequence.senders = id]

\* INSERT OR IGNORE INTO senders (name): UNIQUE(name) makes a second insert
\* of the same name a no-op on the rows (the rowid counter still advances)
InsertOrIgnoreSender(s, nm) ==
    LET id == s.sqlite_sequence.senders + 1
    IN IF \E r \in s.senders : r.name = nm
       THEN [s EXCEPT !.sqlite_sequence.senders = id]
       ELSE [s EXCEPT !.senders = @ \cup {[id |-> id, name |-> nm]},
                      !.sqlite_sequence.senders = id]

\* SELECT id FROM senders WHERE name = ?  (NULL when there is no such row)
SelectSenderId(s, nm) ==
    IF \E r \in s.senders : r.name = nm
    THEN (CHOOSE r \in s.senders : r.name = nm).id
    ELSE NULL

\* Foreign keys of a message row (PRAGMA foreign_keys = ON)
ForeignKeysHold(s, chatId, senderId) ==
    /\ chatId \in ChatIds(s)
    /\ senderId = NULL \/ \E r \in s.senders : r.id = senderId

\* Trigger messages_ai: AFTER INSERT ON messages
messages_ai(fts, new) ==
    fts \cup {[rowid |-> new.id, content |-> new.content]}

\* Trigger messages_ad: AFTER DELETE ON messages
messages_ad(fts, old) ==
    { e \in fts : e.rowid # old.id }

\* the update without its trigger
messages_au_missing(fts, old, new) == fts

\* Trigger messages_au: AFTER UPDATE ON messages
messages_au(fts, old, new) ==
    { IF e.rowid = old.id THEN [e EXCEPT !.content = new.content] ELSE e : e \in fts }

\* INSERT INTO messages (...) with its AFTER INSERT trigger
InsertMessage(s, chatId, senderId, msg, imp) ==
    LET id == s.sqlite_sequence.messages + 1
        new == [id |-> id, chat_id |-> chatId, sender_id |-> senderId,
                timestamp |-> msg.timestamp, content |-> msg.content,
                type |-> msg.type, is_media_omitted |-> msg.isMediaOmitted,
                media_uri |-> msg.mediaUri,
                rawSender |-> msg.rawSender, import |-> imp, line |-> msg.id]
    IN [s EXCEPT !.messages = @ \cup {new},
                 !.messages_fts = messages_ai(@, new),
                 !.sqlite_sequence.messages = id]

RECURSIVE DeleteRows(_, _)
DeleteRows(fts, rows) ==
    IF rows = {} THEN fts
    ELSE LET r == CHOOSE x \in rows : TRUE
         IN DeleteRows(messages_ad(fts, r), rows \ {r})

\* the delete without ON DELETE CASCADE
DeleteChatNoCascade(s, chatId) ==
    [s EXCEPT !.chats = { c \in @ : c.id # chatId }]

\* DELETE FROM chats WHERE id = ?: ON DELETE CASCADE removes the chat's
\* messages, and each removed message fires messages_ad
DeleteChat(s, chatId) ==
    LET gone == { m \in s.messages : m.chat_id = chatId }
    IN [s EXCEPT !.chats = { c \in @ : c.id # chatId },
                 !.messages = @ \ gone,
                 !.messages_fts = DeleteRows(@, gone)]

\* UPDATE messages SET content = ? WHERE id = ? with its AFTER UPDATE trigger
UpdateMessageContent(s, id, content) ==
    LET old == CHOOSE m \in s.messages : m.id = id
        new == [old EXCEPT !.content = content]
    IN [s EXCEPT !.messages = (@ \ {old}) \cup {new},
                 !.messages_fts = messages_au(@, old, new)]

\* the sender id bound to a message: null for System and unresolved names
dbSenderId(map, rawSender) ==
    IF rawSender # "System" /\ rawSender \in DOMAIN map THEN map[rawSender] ELSE NULL

\* insertParsedChat run to its COMMIT with nothing else on the connection:
\* the chat row, then the senders, then the messages
RECURSIVE ResolveSenders(_, _)
ResolveSenders(s, names) ==
    IF names = <<>> THEN s
    ELSE ResolveSenders(InsertOrIgnoreSender(s, Head(names)), Tail(names))

RECURSIVE InsertMessages(_, _, _, _, _)
InsertMessages(s, chatId, map, msgs, imp) ==
    IF msgs = <<>> THEN s
    ELSE InsertMessages(
            InsertMessage(s, chatId, dbSenderId(map, Head(msgs).rawSender),
                          Head(msgs), imp),
            chatId, map, Tail(msgs), imp)

Imported(s, pd, imp) ==
    LET withChat == InsertChat(s, pd.name, imp)
        withSenders == ResolveSenders(withChat, pd.senders)
        map == [n \in { pd.senders[k] : k \in 1..Len(pd.senders) } |->
                    SelectSenderId(withSenders, n)]
    IN InsertMessages(withSenders, s.sqlite_sequence.chats + 1, map, pd.messages, imp)

\* The database file outlives the process: initDatabase (CREATE TABLE IF NOT
\* EXISTS) finds it empty or holding an earlier import
EarlierImport ==
    LET ms == << [id |-> 1, rawSender |-> "Alice", content |-> "hi",
                  timestamp |-> 100, type |-> "text",
                  isMediaOmitted |-> FALSE, mediaUri |-> NoUri],
                 [id |-> 2, rawSender |-> "Bob", content |-> "yo",
                  timestamp |-> 100, type |-> "text",
                  isMediaOmitted |-> FALSE, mediaUri |-> NoUri] >>
    IN [name |-> "Family", senders |-> SendersOf(ms), messages |-> ms]

InitialStores == {EmptyStore, Imported(EmptyStore, EarlierImport, 0)}

\* ------------------------------------------------------------------------
\* insertParsedChat, one action per awaited statement
\* ------------------------------------------------------------------------
\* no function is being called
NoInput == [fn |-> "none"]
NoOutput == [fn |-> "none"]

InitLineBuffer(texts) ==
    /\ text \in texts
    /\ fed = 0
    /\ buffer = <<>>
    /\ emitted = <<>>
    /\ finished = FALSE
    /\ straddled = FALSE

InitFunction(inputs) ==
    /\ input \in inputs
    /\ output = NoOutput

\* neither a file being read in chunks nor a function call
Idle == InitLineBuffer({<<>>}) /\ InitFunction({NoInput})

InitParser ==
    /\ pc = "loop"
    /\ platform = "unknown"
    /\ currentLineNumber = 0
    /\ messages = <<>>
    /\ senders = <<>>
    /\ warnings = <<>>
    /\ lastMessage = 0
    /\ rawLine = <<>>
    /\ nRead = 0
    /\ firstMatch = [dialect |-> "none", line |-> 0, late |-> FALSE]
    /\ unclassified = 0
    /\ consumed = <<>>

\* let mediaMap: Map<string, string> | null = null
\* useState([]), useState(true), useState(0), useState(true)
InitScreen ==
    /\ mediaMap = {}
    /\ uiMessages = <<>>
    /\ isLoading = TRUE
    /\ page = 0
    /\ hasMore = TRUE
    /\ fetching = {}
    /\ nFetches = 0

InitStore(stores) ==
    /\ store \in stores
    /\ inTransaction = FALSE
    /\ snapshot = EmptyStore
    /\ call = [c \in Callers |-> IdleCall]
    /\ nCalls = 0
    /\ nOps = 0
    /\ lastOp = NoOp
    /\ lastRead = NoRead

\* the activation after its return or throw: the locals are gone, the
\* returned chat id and the rowids the statements reported remain
Finished(rec, how) ==
    [IdleCall EXCEPT !.pc = how, !.insertedChatId = rec.insertedChatId,
                     !.failed = rec.failed, !.import = rec.import,
                     !.total = rec.total, !.rowids = rec.rowids]

InFlight(c) == call[c].pc \notin {"idle", "returned", "threw"}

\* a step of insertParsedChat: results of earlier reads and statements have
\* been delivered to their callers
Untouched ==
    /\ nOps' = nOps /\ lastOp' = NoOp /\ lastRead' = NoRead
    /\ UNCHANGED <<pvars, rvars, fvars, svars>>

\* the activation record on entry; import (the ordinal of the call), total
\* (the number of messages handed over) and rowids (the lastInsertRowId of
\* each message insert) are history fields
Entered(pd, n) ==
    [IdleCall EXCEPT !.pc = "begin", !.parsedData = pd, !.import = n,
                     !.total = Len(pd.messages)]

\* insertParsedChat(parsedData) is entered while no other call is running
Call(c, pd) ==
    /\ c = 1
    /\ ~InFlight(c)
    /\ \A d \in Callers : ~InFlight(d)
    /\ nCalls < MaxCalls
    /\ call' = [call EXCEPT ![c] = Entered(pd, nCalls + 1)]
    /\ nCalls' = nCalls + 1
    /\ UNCHANGED <<store, inTransaction, snapshot>>
    /\ Untouched

\* insertParsedChat(parsedData) is entered while another call is running
OverlappingCall(c, pd) ==
    /\ ~InFlight(c)
    /\ \E d \in Callers \ {c} : InFlight(d)
    /\ nCalls < MaxCalls + MaxOverlap
    /\ call' = [call EXCEPT ![c] = Entered(pd, nCalls + 1)]
    /\ nCalls' = nCalls + 1
    /\ UNCHANGED <<store, inTransaction, snapshot>>
    /\ Untouched

\* withTransactionAsync: await execAsync('BEGIN'); inside an open
\* transaction SQLite rejects it and control goes to the catch block
Begin(c) ==
    /\ call[c].pc = "begin"
    /\ IF inTransaction
       THEN /\ call' = [call EXCEPT ![c].pc = "rollback"]
            /\ UNCHANGED <<store, inTransaction, snapshot>>
       ELSE /\ inTransaction' = TRUE
            /\ snapshot' = store
            /\ call' = [call EXCEPT ![c].pc = "insertChat"]
            /\ UNCHANGED store
    /\ UNCHANGED nCalls
    /\ Untouched

\* 1. Insert Chat Meta; insertedChatId = lastInsertRowId
InsertChatMeta(c) ==
    /\ call[c].pc = "insertChat"
    /\ store' = InsertChat(store, call[c].parsedData.name, call[c].import)
    /\ call' = [call EXCEPT ![c].insertedChatId = store.sqlite_sequence.chats + 1,
                            ![c].i = 1,
                            ![c].pc = IF call[c].parsedData.senders = <<>>
                                      THEN "prepare" ELSE "insertSender"]
    /\ UNCHANGED <<inTransaction, snapshot, nCalls>>
    /\ Untouched

\* 2. Resolve Senders: INSERT OR IGNORE INTO senders
InsertSender(c) ==
    /\ call[c].pc = "insertSender"
    /\ store' = InsertOrIgnoreSender(store, call[c].parsedData.senders[call[c].i])
    /\ call' = [call EXCEPT ![c].pc = "selectSender"]
    /\ UNCHANGED <<inTransaction, snapshot, nCalls>>
    /\ Untouched

\* 2. Resolve Senders: SELECT id FROM senders; if (senderRow) map.set(...)
SelectSender(c) ==
    /\ call[c].pc = "selectSender"
    /\ LET nm == call[c].parsedData.senders[call[c].i]
           id == SelectSenderId(store, nm)
           last == call[c].i = Len(call[c].parsedData.senders)
       IN call' = [call EXCEPT
                     ![c].senderNameToIdMap =
                         IF id = NULL THEN @ ELSE (nm :> id) @@ @,
                     ![c].i = IF last THEN 1 ELSE @ + 1,
                     ![c].pc = IF last THEN "prepare" ELSE "insertSender"]
    /\ UNCHANGED <<store, inTransaction, snapshot, nCalls>>
    /\ Untouched

\* 3. Batch Insert Messages: prepareAsync
Prepare(c) ==
    /\ call[c].pc = "prepare"
    /\ call' = [call EXCEPT ![c].pc = "insertMessage", ![c].i = 1]
    /\ UNCHANGED <<store, inTransaction, snapshot, nCalls>>
    /\ Untouched

\* the messages taken last first
MessageAtFromEnd(msgs, i) == msgs[Len(msgs) - i + 1]

\* for (const msg of messages): the i-th message of the iteration
MessageAt(msgs, i) == msgs[i]

\* 3. Batch Insert Messages: statement.executeAsync for messages[i]; a
\* foreign-key violation rejects the statement and the finally block runs
ExecuteInsert(c) ==
    /\ call[c].pc = "insertMessage"
    /\ LET msg == MessageAt(call[c].parsedData.messages, call[c].i)
           sid == dbSenderId(call[c].senderNameToIdMap, msg.rawSender)
           last == call[c].i = Len(call[c].parsedData.messages)
       IN IF ForeignKeysHold(store, call[c].insertedChatId, sid)
          THEN /\ store' = InsertMessage(store, call[c].insertedChatId, sid,
                                         msg, call[c].import)
               /\ call' = [call EXCEPT
                             ![c].rowids = @ \cup {store.sqlite_sequence.messages + 1},
                             ![c].i = IF last THEN @ ELSE @ + 1,
                             ![c].pc = IF last THEN "finalize" ELSE "insertMessage"]
          ELSE /\ call' = [call EXCEPT ![c].failed = TRUE, ![c].pc = "finalize"]
               /\ UNCHANGED store
    /\ UNCHANGED <<inTransaction, snapshot, nCalls>>
    /\ Untouched

\* an awaited statement of the transaction body rejects (I/O error, full
\* disk, ...): inside the try block the finally runs first, otherwise the
\* catch block of withTransactionAsync
StatementFails(c) ==
    /\ call[c].pc \in {"insertChat", "insertSender", "selectSender", "prepare", "insertMessage"}
    /\ call' = [call EXCEPT ![c].failed = TRUE,
                            ![c].pc = IF call[c].pc = "insertMessage"
                                      THEN "finalize" ELSE "rollback"]
    /\ UNCHANGED <<store, inTransaction, snapshot, nCalls>>
    /\ Untouched

\* finally { await statement.finalizeAsync() }
Finalize(c) ==
    /\ call[c].pc = "finalize"
    /\ call' = [call EXCEPT ![c].pc = IF call[c].failed THEN "rollback" ELSE "commit"]
    /\ UNCHANGED <<store, inTransaction, snapshot, nCalls>>
    /\ Untouched

\* withTransactionAsync: await execAsync('COMMIT'); with no open
\* transaction SQLite rejects it and control goes to the catch block
Commit(c) ==
    /\ call[c].pc = "commit"
    /\ IF inTransaction
       THEN /\ inTransaction' = FALSE
            /\ snapshot' = EmptyStore
            /\ call' = [call EXCEPT ![c] = Finished(call[c], "returned")]
       ELSE /\ call' = [call EXCEPT ![c].failed = TRUE, ![c].pc = "rollback"]
            /\ UNCHANGED <<inTransaction, snapshot>>
    /\ UNCHANGED <<store, nCalls>>
    /\ Untouched

\* a catch block that rethrows without ROLLBACK
RollbackOmitted(c) ==
    /\ call[c].pc = "rollback"
    /\ call' = [call EXCEPT ![c] = Finished([call[c] EXCEPT !.failed = TRUE], "threw")]
    /\ inTransaction' = FALSE
    /\ snapshot' = EmptyStore
    /\ UNCHANGED <<store, nCalls>>
    /\ Untouched

\* catch (e) { await execAsync('ROLLBACK'); throw e }: the open transaction
\* of the connection, whoever began it, is undone; with none open the
\* ROLLBACK itself rejects; the caller gets an error either way
Rollback(c) ==
    /\ call[c].pc = "rollback"
    /\ IF inTransaction
       THEN /\ store' = snapshot
            /\ inTransaction' = FALSE
            /\ snapshot' = EmptyStore
       ELSE UNCHANGED <<store, inTransaction, snapshot>>
    /\ call' = [call EXCEPT ![c] = Finished([call[c] EXCEPT !.failed = TRUE], "threw")]
    /\ UNCHANGED nCalls
    /\ Untouched

\* ------------------------------------------------------------------------
\* Other statements on the shared connection
\* ------------------------------------------------------------------------
\* deleteChatById(chatId): one DELETE statement; inside an open transaction
\* it becomes part of that transaction
deleteChatById(chatId) ==
    /\ chatId \in ChatIds(store)
    /\ nOps < MaxOps
    /\ store' = DeleteChat(store, chatId)
    /\ nOps' = nOps + 1
    /\ lastOp' = [op |-> "delete", id |-> chatId]
    /\ lastRead' = NoRead
    /\ UNCHANGED <<inTransaction, snapshot, call, nCalls>>
    /\ UNCHANGED <<pvars, rvars, fvars, svars>>

\* an UPDATE of a message row's content (what trigger messages_au serves)
UpdateMessage(id, content) ==
    /\ \E m \in store.messages : m.id = id /\ m.content # content
    /\ nOps < MaxOps
    /\ store' = UpdateMessageContent(store, id, content)
    /\ nOps' = nOps + 1
    /\ lastOp' = [op |-> "update", id |-> id]
    /\ lastRead' = NoRead
    /\ UNCHANGED <<inTransaction, snapshot, call, nCalls>>
    /\ UNCHANGED <<pvars, rvars, fvars, svars>>

\* rows of equal timestamp returned newest id first
BeforeIdDescending(a, b) ==
    a.timestamp < b.timestamp \/ (a.timestamp = b.timestamp /\ a.id > b.id)

\* ORDER BY m.timestamp ASC, m.id ASC
Before(a, b) ==
    a.timestamp < b.timestamp \/ (a.timestamp = b.timestamp /\ a.id < b.id)

RECURSIVE OrderBy(_)
OrderBy(rows) ==
    IF rows = {} THEN <<>>
    ELSE LET first == CHOOSE r \in rows : \A o \in rows \ {r} : Before(r, o)
         IN <<first>> \o OrderBy(rows \ {first})

\* LIMIT ? OFFSET ?
LimitOffset(rows, limit, offset) ==
    SubSeq(rows, offset + 1, IF offset + limit < Len(rows) THEN offset + limit ELSE Len(rows))

\* SELECT ... FROM messages m WHERE m.chat_id = ? ORDER BY ... LIMIT ? OFFSET ?
SelectMessages(s, chatId, limit, offset) ==
    LimitOffset(OrderBy({ m \in s.messages : m.chat_id = chatId }), limit, offset)

\* getChats(): every row of chats the connection sees
getChats ==
    /\ lastRead' = [NoRead EXCEPT !.op = "getChats", !.chats = store.chats]
    /\ lastRead' # lastRead
    /\ lastOp' = NoOp
    /\ UNCHANGED <<store, inTransaction, snapshot, call, nCalls, nOps>>
    /\ UNCHANGED <<pvars, rvars, fvars, svars>>

\* getMessages(chatId, limit, offset)
getMessages(chatId, limit, offset) ==
    /\ chatId \in ChatIds(store)
    /\ lastRead' = [NoRead EXCEPT
                        !.op = "getMessages", !.chatId = chatId,
                        !.limit = limit, !.offset = offset,
                        !.messages = SelectMessages(store, chatId, limit, offset)]
    /\ lastRead' # lastRead
    /\ lastOp' = NoOp
    /\ UNCHANGED <<store, inTransaction, snapshot, call, nCalls, nOps>>
    /\ UNCHANGED <<pvars, rvars, fvars, svars>>

\* ORDER BY m.id ASC
RECURSIVE OrderById(_)
OrderById(rows) ==
    IF rows = {} THEN <<>>
    ELSE LET first == CHOOSE r \in rows : \A o \in rows : r.id <= o.id
         IN <<first>> \o OrderById(rows \ {first})

\* Array.prototype.reverse
Reverse(seq) == [k \in 1..Len(seq) |-> seq[Len(seq) + 1 - k]]

\* ORDER BY m.id DESC
OrderByIdDesc(rows) == Reverse(OrderById(rows))

\* combined.sort((a, b) => a.id - b.id): a stable sort, by insertion
RECURSIVE SortById(_)
SortById(seq) ==
    IF seq = <<>> THEN <<>>
    ELSE LET sorted == SortById(SubSeq(seq, 1, Len(seq) - 1))
             last == seq[Len(seq)]
             k == Cardinality({ j \in 1..Len(sorted) : sorted[j].id <= last.id })
         IN SubSeq(sorted, 1, k) \o <<last>> \o SubSeq(sorted, k + 1, Len(sorted))

\* the whole window taken on each side of the target
halfLimitWhole(limit) == limit

\* Math.floor(limit / 2)
halfLimit(limit) == limit \div 2

\* the rows getMessageNeighborhood returns from store s
\* the window whose first query leaves out the target (m.id < ?)
NeighborhoodWithoutTarget(s, chatId, targetMessageId, limit) ==
    LET olderAndTarget ==
            LimitOffset(OrderByIdDesc({ m \in s.messages :
                            m.chat_id = chatId /\ m.id < targetMessageId }),
                        halfLimit(limit), 0)
        newer ==
            LimitOffset(OrderById({ m \in s.messages :
                            m.chat_id = chatId /\ m.id > targetMessageId }),
                        halfLimit(limit), 0)
        combined == Reverse(olderAndTarget) \o newer
    IN SortById(combined)

Neighborhood(s, chatId, targetMessageId, limit) ==
    LET olderAndTarget ==
            LimitOffset(OrderByIdDesc({ m \in s.messages :
                            m.chat_id = chatId /\ m.id <= targetMessageId }),
                        halfLimit(limit), 0)
        newer ==
            LimitOffset(OrderById({ m \in s.messages :
                            m.chat_id = chatId /\ m.id > targetMessageId }),
                        halfLimit(limit), 0)
        combined == Reverse(olderAndTarget) \o newer
    IN SortById(combined)

\* getMessageNeighborhood(chatId, targetMessageId, limit)
getMessageNeighborhood(chatId, targetMessageId, limit) ==
    /\ lastRead' = [NoRead EXCEPT
                        !.op = "getMessageNeighborhood", !.chatId = chatId,
                        !.limit = limit, !.target = targetMessageId,
                        !.messages = Neighborhood(store, chatId, targetMessageId, limit)]
    /\ lastRead' # lastRead
    /\ lastOp' = NoOp
    /\ UNCHANGED <<store, inTransaction, snapshot, call, nCalls, nOps>>
    /\ UNCHANGED <<pvars, rvars, fvars, svars>>

\* ------------------------------------------------------------------------
\* Callers of the storage engine
\* ------------------------------------------------------------------------
\* no insertParsedChat call is between its BEGIN and its return or throw
Quiescent == \A c \in Callers : ~InFlight(c)

\* removeChat (ChatContext) after every import has settled
Delete(chatId) == Quiescent /\ deleteChatById(chatId)

Update(id, content) == Quiescent /\ UpdateMessage(id, content)

\* refreshChats (ChatContext) after every import has settled
ReadChats == Quiescent /\ getChats

\* fetchMessages(pageNum) (chat screen) after every import has settled:
\* getMessages(id, PAGE_SIZE, pageNum * PAGE_SIZE)
ReadMessages(chatId, pageSize, pageNum) ==
    Quiescent /\ getMessages(chatId, pageSize, pageNum * pageSize)

\* the same operations issued while an insertParsedChat call is awaiting one
\* of its statements: they run on the same connection, inside its transaction
DeleteDuring(chatId) == ~Quiescent /\ deleteChatById(chatId)

UpdateDuring(id, content) == ~Quiescent /\ UpdateMessage(id, content)

ReadChatsDuring == ~Quiescent /\ getChats

ReadMessagesDuring(chatId) == ~Quiescent /\ getMessages(chatId, DefaultLimit, 0)

\* the chat screen opened on a search result: fetchMessages with a target
ReadNeighborhood(chatId, targetMessageId, window) ==
    Quiescent /\ getMessageNeighborhood(chatId, targetMessageId, window)

\* ------------------------------------------------------------------------
\* Specifications
\* ------------------------------------------------------------------------
Init == InitStore(InitialStores) /\ InitParser /\ InitScreen /\ Idle

\* the ids AUTOINCREMENT can have handed out
MaxChatId == 1 + MaxCalls + MaxOverlap
MaxRowId == 2 + (MaxCalls + MaxOverlap) * MaxMsgs

\* the storage engine used sequentially: every operation is awaited before
\* the next one is issued
Next ==
    \/ \E pd \in ParseResults : Call(1, pd)
    \/ \E c \in Callers : Begin(c)
    \/ \E c \in Callers : InsertChatMeta(c)
    \/ \E c \in Callers : InsertSender(c)
    \/ \E c \in Callers : SelectSender(c)
    \/ \E c \in Callers : Prepare(c)
    \/ \E c \in Callers : ExecuteInsert(c)
    \/ \E c \in Callers : StatementFails(c)
    \/ \E c \in Callers : Finalize(c)
    \/ \E c \in Callers : Commit(c)
    \/ \E c \in Callers : Rollback(c)
    \/ \E id \in 1..MaxChatId : Delete(id)
    \/ \E id \in 1..MaxRowId, t \in Contents : Update(id, t)
    \/ ReadChats
    \/ \E id \in 1..MaxChatId : ReadMessages(id, DefaultLimit, 0)

Spec == Init /\ [][Next]_vars

\* the storage engine with operations overlapping at the await points of
\* insertParsedChat
NextOverlap ==
    \/ Next
    \/ \E c \in Callers, pd \in ParseResults : OverlappingCall(c, pd)
    \/ \E id \in 1..MaxChatId : DeleteDuring(id)
    \/ \E id \in 1..MaxRowId, t \in Contents : UpdateDuring(id, t)
    \/ ReadChatsDuring
    \/ \E id \in 1..MaxChatId : ReadMessagesDuring(id)

SpecOverlap == Init /\ [][NextOverlap]_vars

\* exports whose messages all carry the same minute and the same sender
TiedResults ==
    { pd \in ParseResults :
        /\ Len(pd.messages) = MaxMsgs
        /\ \A k \in 1..Len(pd.messages) : pd.messages[k].rawSender = "Alice" }

\* imports of such exports only, overlapping at the await points
InitIngest ==
    InitStore({Imported(EmptyStore, EarlierImport, 0)}) /\ InitParser /\ InitScreen /\ Idle

NextIngest ==
    \/ \E pd \in TiedResults : Call(1, pd)
    \/ \E c \in Callers, pd \in TiedResults : OverlappingCall(c, pd)
    \/ \E c \in Callers : Begin(c)
    \/ \E c \in Callers : InsertChatMeta(c)
    \/ \E c \in Callers : InsertSender(c)
    \/ \E c \in Callers : SelectSender(c)
    \/ \E c \in Callers : Prepare(c)
    \/ \E c \in Callers : ExecuteInsert(c)
    \/ \E c \in Callers : StatementFails(c)
    \/ \E c \in Callers : Finalize(c)
    \/ \E c \in Callers : Commit(c)
    \/ \E c \in Callers : Rollback(c)

SpecIngest == InitIngest /\ [][NextIngest]_vars

\* the stores n committed imports can leave behind
RECURSIVE StoresAfter(_)
StoresAfter(n) ==
    IF n = 0 THEN InitialStores
    ELSE LET before == StoresAfter(n - 1)
         IN before \cup { Imported(s, pd, n) : s \in before, pd \in ParseResults }

\* no read was made yet: a read leaves the store as it is, so the window
\* reads are taken one per behaviour
FirstRead == lastRead = NoRead

\* the read operations of the storage engine on a store at rest
InitRead == InitStore(StoresAfter(MaxStored)) /\ InitParser /\ InitScreen /\ Idle

NextRead ==
    \/ \E id \in 1..MaxChatId, n \in 1..MaxLimit, p \in 0..MaxMsgs :
          ReadMessages(id, n, p)
    \/ \E id \in 1..MaxChatId, w \in 1..MaxWindow :
          \E target \in 0..(store.sqlite_sequence.messages + 1) :
             FirstRead /\ ReadNeighborhood(id, target, w)

SpecRead == InitRead /\ [][NextRead]_vars

\* ------------------------------------------------------------------------
\* parseWhatsAppChat, one action per iteration of the line loop
\* ------------------------------------------------------------------------
\* every blank line skipped, inside a message too
SkipBlankLine(raw, last) == Trim(raw) = <<>>

\* if (rawLine.trim() === '' && !lastMessage) continue
SkipLine(raw, last) == Trim(raw) = <<>> /\ last = 0

\* the dialect whose timestamp prefix the line has, if any
Dialect(line) ==
    IF AndroidPrefix(line) THEN "android"
    ELSE IF IosPrefix(line) THEN "ios" ELSE "unknown"

\* the platform detected anew on every line that has a timestamp prefix
DetectPlatformAlways(plat, line) ==
    IF Dialect(line) # "unknown" THEN Dialect(line) ELSE plat

\* 1. Detect platform format on the first valid line
DetectPlatform(plat, line) ==
    IF plat = "unknown" THEN Dialect(line) ELSE plat

\* 2. match = line.match(<platform>.timestampPrefix)
Match(plat, line) ==
    \/ plat = "android" /\ AndroidPrefix(line)
    \/ plat = "ios" /\ IosPrefix(line)
\* ------------------------------------------------------------------------
\* detectMessageType
\* ------------------------------------------------------------------------
\* A message body is a sequence of pieces of text: the markers the
\* detector looks for, in lower case or as WhatsApp writes them, and
\* text that holds no marker.
ImageExtensions == {".jpg", ".jpeg", ".png"}
VideoExtensions == {".mp4", ".mov"}
AudioExtensions == {".opus", ".mp3", ".m4a", ".wav", ".ogg"}
DocumentExtensions == {".pdf", ".doc", ".xls", ".txt"}
DeletionPhrases == {"this message was deleted", "you deleted this message"}
CallPhrases == {"missed voice call", "missed video call"}
MapDomains == {"maps.google.com", "maps.apple.com"}

Tokens ==
    ImageExtensions \cup VideoExtensions \cup AudioExtensions
    \cup DocumentExtensions \cup DeletionPhrases \cup CallPhrases
    \cup MapDomains
    \cup {".webp", ".vcf", ".zip", "<media omitted>", "(file attached)",
          "location: ", "live location", "hi",
          "<Media omitted>", "(File Attached)", ".JPG",
          "You deleted this message", "Missed voice call"}

\* content.toLowerCase(), piece by piece
LowerOf(tok) ==
    CASE tok = "<Media omitted>" -> "<media omitted>"
      [] tok = "(File Attached)" -> "(file attached)"
      [] tok = ".JPG" -> ".jpg"
      [] tok = "You deleted this message" -> "you deleted this message"
      [] tok = "Missed voice call" -> "missed voice call"
      [] tok = "IMG-1" -> "img-1"
      [] tok = "VID-2" -> "vid-2"
      [] OTHER -> tok

toLowerCase(content) == [i \in 1..Len(content) |-> LowerOf(content[i])]

\* content.includes(one of the markers)
Includes(content, markers) == \E i \in 1..Len(content) : content[i] \in markers

\* messageBody.includes('omitted')
IncludesOmitted(content) ==
    Includes(content, {"<media omitted>", "<Media omitted>"})

\* content.startsWith(marker)
StartsWith(content, marker) == content # <<>> /\ content[1] = marker

\* the categories of an attached file, by the extensions in the body
AttachedType(lowerContent) ==
    IF Includes(lowerContent, ImageExtensions) THEN "image"
    ELSE IF Includes(lowerContent, VideoExtensions) THEN "video"
    ELSE IF Includes(lowerContent, AudioExtensions) THEN "audio"
    ELSE IF Includes(lowerContent, {".webp"}) THEN "sticker"
    ELSE IF Includes(lowerContent, {".vcf"}) THEN "contact"
    ELSE "document"

IsLocation(lowerContent) ==
    \/ Includes(lowerContent, MapDomains)
    \/ StartsWith(lowerContent, "location: ")
    \/ Includes(lowerContent, {"live location"})

\* the detector with the location rule tried before the attached-file rule
detectMessageTypeLocationFirst(content, sender) ==
    LET lowerContent == toLowerCase(content)
    IN IF sender = "System" THEN "system"
       ELSE IF Includes(lowerContent, {"<media omitted>"}) THEN "image"
       ELSE IF IsLocation(lowerContent) THEN "location"
       ELSE IF Includes(lowerContent, {"(file attached)"})
            THEN AttachedType(lowerContent)
       ELSE IF \E ph \in DeletionPhrases : lowerContent = <<ph>> THEN "deleted"
       ELSE IF Includes(lowerContent, CallPhrases) THEN "call_log"
       ELSE "text"

\* the detector without the test of the sender
detectMessageTypeIgnoringSender(content, sender) ==
    LET lowerContent == toLowerCase(content)
    IN IF Includes(lowerContent, {"<media omitted>"}) THEN "image"
       ELSE IF Includes(lowerContent, {"(file attached)"})
            THEN AttachedType(lowerContent)
       ELSE IF \E ph \in DeletionPhrases : lowerContent = <<ph>> THEN "deleted"
       ELSE IF Includes(lowerContent, CallPhrases) THEN "call_log"
       ELSE IF IsLocation(lowerContent) THEN "location"
       ELSE "text"

detectMessageType(content, sender) ==
    LET lowerContent == toLowerCase(content)
    IN IF sender = "System" THEN "system"
       ELSE IF Includes(lowerContent, {"<media omitted>"}) THEN "image"
       ELSE IF Includes(lowerContent, {"(file attached)"})
            THEN AttachedType(lowerContent)
       ELSE IF \E ph \in DeletionPhrases : lowerContent = <<ph>> THEN "deleted"
       ELSE IF Includes(lowerContent, CallPhrases) THEN "call_log"
       ELSE IF IsLocation(lowerContent) THEN "location"
       ELSE "text"

\* the characters as one string
RECURSIVE Text(_)
Text(seq) == IF seq = <<>> THEN "" ELSE seq[1] \o Text(Tail(seq))


\* 3. It's a NEW message
NewMessage(lineNumber, line, raw) ==
    LET sm == SenderAndMessage(BodyPart(line))
        type == detectMessageType(sm.body, Text(sm.sender))
    IN [id |-> lineNumber, timestamp |-> 100,
        content |-> sm.body, rawSender |-> sm.sender,
        type |-> type,
        isMediaOmitted |-> type = "image" /\ IncludesOmitted(sm.body),
        mediaUri |-> NoUri, rawText |-> raw]

\* every sender name added, 'System' too
AddSenderAlways(set, name) ==
    IF \E k \in 1..Len(set) : set[k] = name THEN set ELSE Append(set, name)

\* senders.add(senderStr) unless it is 'System'
AddSender(set, name) ==
    IF name = <<"System">> \/ \E k \in 1..Len(set) : set[k] = name
    THEN set ELSE Append(set, name)

\* the continuation with the type detected again on the longer content
ContinuationRedetect(msg, line, raw) ==
    LET content == msg.content \o <<NL>> \o line
        type == detectMessageType(content, Text(msg.rawSender))
    IN [msg EXCEPT !.content = content,
                   !.rawText = IF @ # <<>> THEN @ \o <<NL>> \o raw ELSE @,
                   !.type = type,
                   !.isMediaOmitted = type = "image" /\ IncludesOmitted(content)]

\* 4. It's a CONTINUATION of the previous message
Continuation(msg, line, raw) ==
    [msg EXCEPT !.content = @ \o <<NL>> \o line,
                !.rawText = IF @ # <<>> THEN @ \o <<NL>> \o raw ELSE @]

\* one iteration of for (const rawLine of lines)
ReadLine(l) ==
    /\ pc = "loop"
    /\ IF platform = "unknown"
       THEN currentLineNumber < DetectLimit + MaxLate
       ELSE nRead < MaxBody
    /\ currentLineNumber' = currentLineNumber + 1
    /\ rawLine' = l
    /\ nRead' = IF platform = "unknown" THEN 0 ELSE nRead + 1
    /\ firstMatch' = IF /\ firstMatch.dialect = "none"
                        /\ Dialect(sanitizeContent(l)) # "unknown"
                     THEN [dialect |-> Dialect(sanitizeContent(l)),
                           line |-> currentLineNumber + 1,
                           late |-> unclassified >= DetectLimit]
                     ELSE firstMatch
    /\ unclassified' = IF firstMatch'.dialect # "none" THEN 0
                       ELSE IF Trim(l) # <<>> THEN unclassified + 1
                       ELSE unclassified
    /\ consumed' = IF firstMatch'.dialect # "none"
                   THEN Append(consumed, l) ELSE consumed
    /\ LET line == sanitizeContent(l)
           plat == DetectPlatform(platform, line)
       IN IF SkipLine(l, lastMessage)
          THEN UNCHANGED <<pc, platform, messages, senders, warnings, lastMessage>>
          ELSE IF plat = "unknown"
          THEN /\ IF currentLineNumber' > DetectLimit
                  THEN /\ warnings' = Append(warnings, "format not recognized")
                       /\ pc' = "done"
                  ELSE UNCHANGED <<warnings, pc>>
               /\ UNCHANGED <<platform, messages, senders, lastMessage>>
          ELSE /\ platform' = plat
               /\ pc' = pc
               /\ IF Match(plat, line)
                  THEN LET new == NewMessage(currentLineNumber', line, l)
                       IN /\ messages' = Append(messages, new)
                          /\ senders' = AddSender(senders, new.rawSender)
                          /\ lastMessage' = Len(messages) + 1
                          /\ UNCHANGED warnings
                  ELSE IF lastMessage # 0
                  THEN /\ messages' = [messages EXCEPT ![lastMessage] =
                                          Continuation(@, line, l)]
                       /\ UNCHANGED <<senders, warnings, lastMessage>>
                  ELSE /\ warnings' = IF Trim(line) # <<>>
                                      THEN Append(warnings, "orphaned line")
                                      ELSE warnings
                       /\ UNCHANGED <<messages, senders, lastMessage>>
    /\ UNCHANGED <<dbvars, rvars, fvars, svars>>

\* the lines are exhausted: return { chat, messages, senders, warnings }
EndOfInput ==
    /\ pc = "loop"
    /\ pc' = "done"
    /\ UNCHANGED <<platform, currentLineNumber, messages, senders, warnings,
                   lastMessage, rawLine, nRead, firstMatch, unclassified,
                   consumed>>
    /\ UNCHANGED <<dbvars, rvars, fvars, svars>>

InitParse == InitStore({EmptyStore}) /\ InitParser /\ InitScreen /\ Idle

NextParse ==
    \/ \E l \in Lines : ReadLine(l)
    \/ EndOfInput

SpecParse == InitParse /\ [][NextParse]_vars

\* ------------------------------------------------------------------------
\* handleImport: the export is parsed, then stored
\* ------------------------------------------------------------------------
\* the ParseResult returned: { chat, messages, senders, warnings }
ParseResultOf(msgs, names) ==
    [ name |-> "Family",
      senders |-> [k \in 1..Len(names) |-> Text(names[k])],
      messages |-> [k \in 1..Len(msgs) |->
                      [id |-> msgs[k].id, rawSender |-> Text(msgs[k].rawSender),
                       content |-> Text(msgs[k].content),
                       timestamp |-> msgs[k].timestamp,
                       type |-> msgs[k].type,
                       isMediaOmitted |-> msgs[k].isMediaOmitted,
                       mediaUri |-> msgs[k].mediaUri]] ]

\* MEDIA_EXTENSIONS; a file name is its stem and its extension
MediaExtensions ==
    {".jpg", ".jpeg", ".png", ".webp", ".gif", ".mp4", ".mov", ".3gp", ".avi",
     ".opus", ".mp3", ".m4a", ".wav", ".ogg", ".aac", ".pdf", ".doc", ".docx",
     ".xls", ".xlsx", ".ppt", ".pptx", ".txt", ".csv", ".vcf"}

\* extractMediaFromDirectory: mediaMap.set(fileName.toLowerCase(), destFile.uri)
\* for the files of the extracted directory that isMediaFile accepts
extractMediaFromDirectory(files) ==
    LET isMediaFile(filename) ==
           LET lower == toLowerCase(filename)
           IN /\ ~Includes(lower, {"__macosx"})
              /\ ~(/\ lower[Len(lower)] = ".txt"
                   /\ Includes(lower, {"_chat", "chat"}))
              /\ lower[Len(lower)] \in MediaExtensions
    IN { [name |-> toLowerCase(f), uri |-> "media/" \o Text(f)] :
           f \in { g \in files : isMediaFile(g) } }

\* extractAttachmentFilename(content): "FILENAME.ext (file attached)",
\* "<attached: FILENAME.ext>", or the file name of a WhatsApp medium on its
\* own; <<>> stands for null
extractAttachmentFilename(content) ==
    LET \* the position of the last piece that is not white space, or 0
        LastInk(t) ==
           IF \A i \in 1..Len(t) : t[i] \in {SP, NL} THEN 0
           ELSE CHOOSE i \in 1..Len(t) :
                   /\ t[i] \notin {SP, NL}
                   /\ \A j \in (i + 1)..Len(t) : t[j] \in {SP, NL}
        isName(t) == /\ t # <<>>
                     /\ t[Len(t)] \in MediaExtensions
                     /\ \A i \in 1..Len(t) : t[i] # NL
        end == LastInk(content)
        before == IF end = 0 THEN <<>> ELSE SubSeq(content, 1, end - 1)
        stem == LastInk(before)
        closes(i, j) == /\ content[j] = ">"
                        /\ isName(TrimStart(SubSeq(content, i + 1, j - 1)))
        opens == { i \in 1..Len(content) :
                     /\ LowerOf(content[i]) = "<attached:"
                     /\ \E j \in (i + 1)..Len(content) : closes(i, j) }
    IN IF /\ end # 0
          /\ LowerOf(content[end]) = "(file attached)"
          /\ isName(SubSeq(before, 1, stem))
       THEN Trim(SubSeq(before, 1, stem))
       ELSE IF opens # {}
       THEN LET i == CHOOSE o \in opens : \A q \in opens : o <= q
                j == CHOOSE c \in (i + 1)..Len(content) :
                        /\ closes(i, c)
                        /\ \A d \in (i + 1)..(c - 1) : ~closes(i, d)
            IN Trim(SubSeq(content, i + 1, j - 1))
       ELSE IF /\ end = 2
               /\ LowerOf(content[1]) \in {"img-1", "vid-2"}
               /\ isName(SubSeq(content, 1, 2))
       THEN SubSeq(content, 1, 2)
       ELSE <<>>

\* Link media files to messages (if we extracted any); _attachmentFilename
\* is undefined (<<>>) in a message the parser did not give it to
LinkMedia(parsedData, map) ==
    LET linked(msg) ==
           LET attachmentName ==
                  IF "_attachmentFilename" \in DOMAIN msg
                  THEN msg["_attachmentFilename"] ELSE <<>>
               found == { e \in map : e.name = toLowerCase(attachmentName) }
           IN IF attachmentName # <<>> /\ found # {}
              THEN [msg EXCEPT !.mediaUri = (CHOOSE e \in found : TRUE).uri,
                               !.isMediaOmitted = FALSE]
              ELSE msg
    IN IF map = {} THEN parsedData
       ELSE [parsedData EXCEPT !.messages =
                [k \in 1..Len(@) |-> linked(@[k])]]

\* if (parsedData.messages.length === 0) return; otherwise
\* await insertParsedChat(parsedData), with nothing else on the connection
ImportParsed ==
    /\ pc = "done"
    /\ messages # <<>>
    /\ nCalls = 0
    /\ store' = Imported(store,
                         LinkMedia(ParseResultOf(messages, senders), mediaMap), 1)
    /\ nCalls' = 1
    /\ UNCHANGED <<inTransaction, snapshot, call, nOps, lastOp, lastRead>>
    /\ UNCHANGED <<pvars, rvars, fvars, svars>>

NextImport ==
    \/ \E l \in Lines : ReadLine(l)
    \/ EndOfInput
    \/ ImportParsed

SpecImport == InitParse /\ [][NextImport]_vars

\* ------------------------------------------------------------------------
\* handleImport of a .zip: the archive is extracted and its media moved,
\* the chat file parsed, the media linked, the result stored
\* ------------------------------------------------------------------------
\* await unzip(...); mediaMap = extractMediaFromDirectory(extractedDir, importId)
Unzip(files) ==
    /\ pc = "unzip"
    /\ mediaMap' = extractMediaFromDirectory(files)
    /\ pc' = "loop"
    /\ UNCHANGED <<platform, currentLineNumber, messages, senders, warnings,
                   lastMessage, rawLine, nRead, firstMatch, unclassified,
                   consumed>>
    /\ UNCHANGED <<dbvars, rvars, fvars, cvars>>

InitZip ==
    /\ InitStore({EmptyStore}) /\ InitScreen /\ Idle
    /\ pc = "unzip"
    /\ platform = "unknown"
    /\ currentLineNumber = 0
    /\ messages = <<>>
    /\ senders = <<>>
    /\ warnings = <<>>
    /\ lastMessage = 0
    /\ rawLine = <<>>
    /\ nRead = 0
    /\ firstMatch = [dialect |-> "none", line |-> 0, late |-> FALSE]
    /\ unclassified = 0
    /\ consumed = <<>>

NextZip ==
    \/ \E files \in SUBSET { <<"IMG-1", ".jpg">>, <<"VID-2", ".mp4">>,
                            <<"_chat", ".txt">> } : Unzip(files)
    \/ \E l \in { <<"T", "a", ":", SP, "IMG-1", ".jpg", SP, "(file attached)">>,
                  <<"T", "a", ":", SP, "<Media omitted>">>,
                  <<"T", "a", ":", SP, "b">>,
                  <<"T", "b">>,
                  <<"a">>,
                  <<"<Media omitted>">> } : ReadLine(l)
    \/ EndOfInput
    \/ ImportParsed

SpecZip == InitZip /\ [][NextZip]_vars

\* ------------------------------------------------------------------------
\* handleImport with insertParsedChat followed statement by statement
\* ------------------------------------------------------------------------
\* the parse without the test of parsedData.messages.length
HandleImportUnchecked ==
    /\ pc = "done"
    /\ Call(1, LinkMedia(ParseResultOf(messages, senders), mediaMap))

\* if (parsedData.messages.length === 0) return;
\* const insertedId = await insertParsedChat(parsedData)
HandleImport ==
    /\ pc = "done"
    /\ messages # <<>>
    /\ Call(1, LinkMedia(ParseResultOf(messages, senders), mediaMap))

NextHandle ==
    \/ \E l \in { <<"a">>, <<"T", "a", ":", SP, "b">>, <<"T", "b">> } :
          ReadLine(l)
    \/ EndOfInput
    \/ HandleImport
    \/ \E c \in Callers : Begin(c)
    \/ \E c \in Callers : InsertChatMeta(c)
    \/ \E c \in Callers : InsertSender(c)
    \/ \E c \in Callers : SelectSender(c)
    \/ \E c \in Callers : Prepare(c)
    \/ \E c \in Callers : ExecuteInsert(c)
    \/ \E c \in Callers : StatementFails(c)
    \/ \E c \in Callers : Finalize(c)
    \/ \E c \in Callers : Commit(c)
    \/ \E c \in Callers : Rollback(c)
    \/ \E id \in 1..MaxChatId : Delete(id)

SpecHandle == Init /\ [][NextHandle]_vars

\* ------------------------------------------------------------------------
\* The timestamp patterns, character by character
\* ------------------------------------------------------------------------
Digit == {"0", "1", "2", "3", "4", "5", "6", "7", "8", "9"}
Letter == {"A", "M", "P", "a", "b", "h", "i", "m", "p", "x", "y"}
Whitespace == {SP}

\* A pattern is a sequence of items, each a character class repeated min to
\* max times.  EndsOf is the set of positions where a match of the items
\* that starts at position i of s can end (the position behind its last
\* character).
RECURSIVE EndsOf(_, _, _)
EndsOf(s, i, items) ==
    IF items = <<>> THEN {i}
    ELSE LET it == Head(items)
         IN UNION { EndsOf(s, i + n, Tail(items)) :
                      n \in { k \in it.min..it.max :
                                /\ i + k - 1 <= Len(s)
                                /\ \A j \in i..(i + k - 1) : s[j] \in it.class } }

Item(class, min, max) == [class |-> class, min |-> min, max |-> max]

One(c) == Item({c}, 1, 1)

\* \d{1,2}[seps]\d{1,2}[seps]\d{2,4}
DatePattern(seps) ==
    << Item(Digit, 1, 2), Item(seps, 1, 1), Item(Digit, 1, 2),
       Item(seps, 1, 1), Item(Digit, 2, 4) >>

\* ,\s
CommaSpace == << One(","), Item(Whitespace, 1, 1) >>

\* \d{1,2}:\d{2}
HoursMinutes == << Item(Digit, 1, 2), One(":"), Item(Digit, 2, 2) >>

\* line.match(pattern) for a pattern ^ opening (date) ,\s (time) closing:
\* the groups and the length of the match, or no match
NoMatch == [matched |-> FALSE]

MatchPrefix(line, opening, date, times, closing) ==
    LET e0 == EndsOf(line, 1, opening)
        e1 == UNION { EndsOf(line, i, date) : i \in e0 }
        e2 == UNION { EndsOf(line, i, CommaSpace) : i \in e1 }
        e3 == UNION { EndsOf(line, i, t) : i \in e2, t \in times }
        e4 == UNION { EndsOf(line, i, closing) : i \in e3 }
    IN IF e4 = {} THEN NoMatch
       ELSE LET a0 == CHOOSE i \in e0 : TRUE
                a1 == CHOOSE i \in e1 : EndsOf(line, i, CommaSpace) # {}
                a2 == CHOOSE i \in e2 : TRUE
                a3 == CHOOSE i \in e3 : EndsOf(line, i, closing) # {}
                a4 == CHOOSE i \in e4 : TRUE
            IN [matched |-> TRUE,
                date |-> SubSeq(line, a0, a1 - 1),
                time |-> SubSeq(line, a2, a3 - 1),
                length |-> a4 - 1]

\* line.match(ANDROID_REGEX.timestampPrefix)
AndroidMatch(line) ==
    MatchPrefix(line, <<>>,
                \* (\d{1,2}[./-]\d{1,2}[./-]\d{2,4}), the widest version
                DatePattern({".", "/", "-"}),
                \* (\d{1,2}:\d{2}(?:\s[a-zA-Z]{2})?), the group present or absent
                { HoursMinutes,
                  HoursMinutes \o << Item(Whitespace, 1, 1), Item(Letter, 2, 2) >> },
                \* \s-\s
                << Item(Whitespace, 1, 1), One("-"), Item(Whitespace, 1, 1) >>)

\* line.match(IOS_REGEX.timestampPrefix)
IosMatch(line) ==
    MatchPrefix(line, <<One("[")>>,
                \* (\d{1,2}\/\d{1,2}\/\d{2,4})
                DatePattern({"/"}),
                \* (\d{1,2}:\d{2}:\d{2})
                { HoursMinutes \o << One(":"), Item(Digit, 2, 2) >> },
                \* \]\s
                << One("]"), Item(Whitespace, 1, 1) >>)

\* what one iteration of parseWhatsAppChat makes of a first line: the
\* platform is detected, the prefix matched, sender and body split
classifyLine(rawLine_) ==
    LET line == sanitizeContent(rawLine_)
        plat == IF AndroidMatch(line).matched THEN "android"
                ELSE IF IosMatch(line).matched THEN "ios" ELSE "unknown"
        match == IF plat = "android" THEN AndroidMatch(line)
                 ELSE IF plat = "ios" THEN IosMatch(line) ELSE NoMatch
    IN IF ~match.matched
       THEN [fn |-> "classifyLine", head |-> FALSE, platform |-> plat,
             date |-> <<>>, time |-> <<>>, sender |-> <<>>, body |-> <<>>]
       ELSE LET bodyPart == SubSeq(line, match.length + 1, Len(line))
                sm == SenderAndMessage(bodyPart)
            IN [fn |-> "classifyLine", head |-> TRUE, platform |-> plat,
                date |-> match.date, time |-> match.time,
                sender |-> sm.sender, body |-> sm.body]

\* The head lines of the two dialects: the fields of the date, the
\* separators, the year, the time with or without AM/PM marker, and the
\* remainder, with the sender and the body the remainder was written from
Remainder ==
    { [text |-> <<"A", ":", SP, "h", "i">>, sender |-> <<"A">>, body |-> <<"h", "i">>],
      [text |-> <<"A", ":", SP>>, sender |-> <<"A">>, body |-> <<>>],
      [text |-> <<"A", ":", SP, "x", ":", SP, "y">>, sender |-> <<"A">>,
       body |-> <<"x", ":", SP, "y">>],
      [text |-> <<"h", "i">>, sender |-> <<"System">>, body |-> <<"h", "i">>] }

HeadLines ==
    { LET date == d \o <<s1>> \o <<"0", "6">> \o <<s2>> \o y
          time == IF dialect = "A"
                  THEN h \o <<":", "3", "0", ":", "0", "0">> \o mk
                  ELSE h \o <<":", "3", "0">> \o mk
      IN [fn |-> "classifyLine", dialect |-> dialect, date |-> date,
          time |-> time, sender |-> r.sender, body |-> r.body,
          line |-> IF dialect = "A"
                   THEN <<"[">> \o date \o <<",", SP>> \o time \o <<"]", SP>> \o r.text
                   ELSE date \o <<",", SP>> \o time \o <<SP, "-", SP>> \o r.text] :
        dialect \in {"A", "B"}, d \in { <<"2", "0">>, <<"5">> },
        s1 \in {"/", ".", "-"}, s2 \in {"/", ".", "-"},
        y \in { <<"2", "1">>, <<"2", "0", "2", "1">> },
        h \in { <<"1", "4">>, <<"2">> }, mk \in { <<>>, <<SP, "P", "M">> },
        r \in Remainder }

\* the bodies and senders the detector is applied to
DetectorInputs ==
    { [fn |-> "detectMessageType", content |-> c, sender |-> sn] :
        c \in UNION { [1..n -> Tokens] : n \in 0..MaxTokens },
        sn \in {"System", "Alice"} }

DetectMessageType ==
    /\ input.fn = "detectMessageType"
    /\ output = NoOutput
    /\ output' = [fn |-> "detectMessageType",
                  type |-> detectMessageType(input.content, input.sender)]
    /\ UNCHANGED input
    /\ UNCHANGED <<dbvars, pvars, rvars, svars>>

\* ------------------------------------------------------------------------
\* parseDate
\* ------------------------------------------------------------------------
DigitChars == <<"0", "1", "2", "3", "4", "5", "6", "7", "8", "9">>

DigitValue(c) == CHOOSE d \in 0..9 : DigitChars[d + 1] = c

\* the decimal writing of a number
RECURSIVE Decimal(_)
Decimal(n) ==
    IF n < 10 THEN <<DigitChars[n + 1]>>
    ELSE Decimal(n \div 10) \o <<DigitChars[(n % 10) + 1]>>

\* parseInt(s, 10) of a string of digits
RECURSIVE parseInt(_)
parseInt(s) ==
    IF s = <<>> THEN 0
    ELSE 10 * parseInt(SubSeq(s, 1, Len(s) - 1)) + DigitValue(s[Len(s)])

\* dateStr.replace(/[.-]/g, '/')
normalizeDate(dateStr) ==
    [i \in 1..Len(dateStr) |-> IF dateStr[i] \in {".", "-"} THEN "/" ELSE dateStr[i]]

\* s.split(c)
RECURSIVE SplitOn(_, _)
SplitOn(s, c) ==
    IF \A i \in 1..Len(s) : s[i] # c THEN <<s>>
    ELSE LET k == CHOOSE i \in 1..Len(s) :
                    s[i] = c /\ \A j \in 1..(i - 1) : s[j] # c
         IN <<SubSeq(s, 1, k - 1)>> \o SplitOn(SubSeq(s, k + 1, Len(s)), c)

\* the length of the run of digits of s that starts at position i
RECURSIVE DigitRun(_, _)
DigitRun(s, i) ==
    IF i <= Len(s) /\ s[i] \in Digit THEN 1 + DigitRun(s, i + 1) ELSE 0

\* timeStr.match(/(\d+):(\d+)(?::(\d+))?\s*([AaPp][Mm])?/i) on a time that
\* begins with its hours: hours, minutes, seconds and marker, 0 and ""
\* where the time has none
timeParts(timeStr) ==
    LET n1 == DigitRun(timeStr, 1)
        n2 == DigitRun(timeStr, n1 + 2)
        e2 == n1 + 2 + n2
        hasSecs == /\ e2 <= Len(timeStr) /\ timeStr[e2] = ":"
                   /\ DigitRun(timeStr, e2 + 1) > 0
        n3 == IF hasSecs THEN DigitRun(timeStr, e2 + 1) ELSE 0
        e3 == IF hasSecs THEN e2 + 1 + n3 ELSE e2
        ws == CHOOSE k \in 0..Len(timeStr) :
                  /\ \A j \in e3..(e3 + k - 1) : j <= Len(timeStr) /\ timeStr[j] \in Whitespace
                  /\ ~(e3 + k <= Len(timeStr) /\ timeStr[e3 + k] \in Whitespace)
        e4 == e3 + ws
        hasMarker == /\ e4 + 1 <= Len(timeStr)
                     /\ timeStr[e4] \in {"A", "a", "P", "p"}
                     /\ timeStr[e4 + 1] \in {"M", "m"}
    IN [hours |-> parseInt(SubSeq(timeStr, 1, n1)),
        mins |-> parseInt(SubSeq(timeStr, n1 + 2, n1 + 1 + n2)),
        secs |-> IF hasSecs THEN parseInt(SubSeq(timeStr, e2 + 1, e2 + n3)) ELSE 0,
        ampm |-> IF ~hasMarker THEN ""
                 ELSE IF timeStr[e4] \in {"P", "p"} THEN "PM" ELSE "AM"]

IsLeap(y) == (y % 4 = 0 /\ y % 100 # 0) \/ y % 400 = 0

\* the days of month m (1 to 12) of year y
DaysIn(y, m) ==
    IF m = 2 THEN (IF IsLeap(y) THEN 29 ELSE 28)
    ELSE IF m \in {4, 6, 9, 11} THEN 30 ELSE 31

\* a day count carried into the months behind or before month m of year y
RECURSIVE CarryDays(_, _, _)
CarryDays(y, m, d) ==
    IF d > DaysIn(y, m)
    THEN IF m = 12 THEN CarryDays(y + 1, 1, d - DaysIn(y, m))
         ELSE CarryDays(y, m + 1, d - DaysIn(y, m))
    ELSE IF d < 1
    THEN IF m = 1 THEN CarryDays(y - 1, 12, d + DaysIn(y - 1, 12))
         ELSE CarryDays(y, m - 1, d + DaysIn(y, m - 1))
    ELSE [year |-> y, month |-> m, day |-> d]

\* new Date(year, month, day, hours, mins, secs): the calendar instant,
\* every field beyond its range carried into the next one (month counts
\* from 0 in the arguments, from 1 in the result)
NewDate(year, month, day, hours, mins, secs) ==
    LET m1 == mins + (secs \div 60)
        h1 == hours + (m1 \div 60)
        d1 == day + (h1 \div 24)
        y1 == year + (month \div 12)
        ymd == CarryDays(y1, (month % 12) + 1, d1)
    IN [year |-> ymd.year, month |-> ymd.month, day |-> ymd.day,
        hours |-> h1 % 24, mins |-> m1 % 60, secs |-> secs % 60]

\* the result of the resolver when it returns Date.now(): no field is picked
Now ==
    [fn |-> "parseDate", now |-> TRUE, year |-> 0, month |-> 0, day |-> 0,
     time |-> [year |-> 0, month |-> 0, day |-> 0, hours |-> 0, mins |-> 0, secs |-> 0]]

\* the resolver, an ambiguous date read month first
parseDateMonthFirst(dateStr, timeStr) ==
    LET tp == timeParts(timeStr)
        hours == IF tp.ampm = "PM" /\ tp.hours < 12 THEN tp.hours + 12
                 ELSE IF tp.ampm = "AM" /\ tp.hours = 12 THEN 0
                 ELSE tp.hours
        dateParts == SplitOn(normalizeDate(dateStr), "/")
    IN IF Len(dateParts) # 3
       THEN Now
       ELSE LET p1 == parseInt(dateParts[1])
                p2 == parseInt(dateParts[2])
                y0 == parseInt(dateParts[3])
                year == IF y0 < 100 THEN y0 + 2000 ELSE y0
                day == IF p1 > 12 THEN p1 ELSE p2
                month == IF p1 > 12 THEN p2 - 1 ELSE p1 - 1
            IN [fn |-> "parseDate", now |-> FALSE,
                year |-> year, month |-> month, day |-> day,
                time |-> NewDate(year, month, day, hours, tp.mins, tp.secs)]

\* parseDate(dateStr, timeStr): the year, month (from 0) and day it picks
\* and the instant it returns
parseDate(dateStr, timeStr) ==
    LET tp == timeParts(timeStr)
        hours == IF tp.ampm = "PM" /\ tp.hours < 12 THEN tp.hours + 12
                 ELSE IF tp.ampm = "AM" /\ tp.hours = 12 THEN 0
                 ELSE tp.hours
        dateParts == SplitOn(normalizeDate(dateStr), "/")
    IN IF Len(dateParts) # 3
       THEN Now
       ELSE LET p1 == parseInt(dateParts[1])
                p2 == parseInt(dateParts[2])
                y0 == parseInt(dateParts[3])
                year == IF y0 < 100 THEN y0 + 2000 ELSE y0
                day == IF p1 > 12 THEN p1 ELSE IF p2 > 12 THEN p2 ELSE p1
                month == IF p1 > 12 THEN p2 - 1
                         ELSE IF p2 > 12 THEN p1 - 1 ELSE p2 - 1
            IN [fn |-> "parseDate", now |-> FALSE,
                year |-> year, month |-> month, day |-> day,
                time |-> NewDate(year, month, day, hours, tp.mins, tp.secs)]

\* the date and time texts of head lines: two fields from 1 to MaxField, a
\* year in two or four digits, and a time with or without seconds and
\* marker
DateInputs ==
    { [fn |-> "parseDate", f1 |-> f1, f2 |-> f2, y |-> y, hour |-> h,
       marker |-> mk,
       dateStr |-> Decimal(f1) \o <<sep>> \o Decimal(f2) \o <<sep>> \o Decimal(y),
       timeStr |-> Decimal(h) \o <<":", "3", "0">> \o sc \o mk] :
        f1 \in 1..MaxField, f2 \in 1..MaxField, y \in {21, 2024},
        sep \in {"/", "."}, h \in {2, 12, 25},
        sc \in { <<>>, <<":", "5", "9">> },
        mk \in { <<>>, <<SP, "P", "M">>, <<SP, "a", "m">> } }

ParseDate ==
    /\ input.fn = "parseDate"
    /\ output = NoOutput
    /\ output' = parseDate(input.dateStr, input.timeStr)
    /\ UNCHANGED input
    /\ UNCHANGED <<dbvars, pvars, rvars, svars>>

\* a line is classified
ClassifyLine ==
    /\ input.fn = "classifyLine"
    /\ output = NoOutput
    /\ output' = classifyLine(input.line)
    /\ UNCHANGED input
    /\ UNCHANGED <<dbvars, pvars, rvars, svars>>

\* sanitizeContent applied to a string, and to what it returned
SanitizeContent ==
    /\ input.fn = "sanitizeContent"
    /\ output = NoOutput
    /\ output' = [fn |-> "sanitizeContent",
                  once |-> sanitizeContent(input.content),
                  twice |-> sanitizeContent(sanitizeContent(input.content))]
    /\ UNCHANGED input
    /\ UNCHANGED <<dbvars, pvars, rvars, svars>>

InitFunctions ==
    InitStore({EmptyStore}) /\ InitParser /\ InitScreen /\ InitLineBuffer({<<>>})
    /\ InitFunction(HeadLines \cup DetectorInputs \cup DateInputs
          \cup { [fn |-> "sanitizeContent", content |-> x] :
                   x \in UNION { [1..n -> {"a", SP, NL, "LRM"}] :
                                   n \in 0..MaxContent } })

NextFunctions ==
    \/ ClassifyLine
    \/ DetectMessageType
    \/ ParseDate
    \/ SanitizeContent

SpecFunctions == InitFunctions /\ [][NextFunctions]_vars

\* ------------------------------------------------------------------------
\* searchMessages
\* ------------------------------------------------------------------------
\* the characters of message contents and of queries: letters in both
\* cases, punctuation, the double quote and the space
Alphanumeric == {"a", "b", "A", "B"}
QueryChars == {"a", "B", "-", "_", "\"", SP}

\* the length of the run of characters of class cls that starts s
RECURSIVE ClassRun(_, _)
ClassRun(s, cls) ==
    IF s # <<>> /\ Head(s) \in cls THEN 1 + ClassRun(Tail(s), cls) ELSE 0

\* the maximal runs of characters of class cls in s
RECURSIVE RunsOf(_, _)
RunsOf(s, cls) ==
    IF s = <<>> THEN <<>>
    ELSE IF Head(s) \notin cls THEN RunsOf(Tail(s), cls)
    ELSE LET n == ClassRun(s, cls)
         IN <<SubSeq(s, 1, n)>> \o RunsOf(SubSeq(s, n + 1, Len(s)), cls)

\* the case folding of the tokenizer
Fold(c) == IF c = "A" THEN "a" ELSE IF c = "B" THEN "b" ELSE c

\* the default tokenizer of fts5: the runs of letters and digits, folded
Tokenize(t) ==
    LET runs == RunsOf(t, Alphanumeric)
    IN [k \in 1..Len(runs) |-> [j \in 1..Len(runs[k]) |-> Fold(runs[k][j])]]

\* query.trim().split(/\s+/)
TermsOf(query) == RunsOf(Trim(query), QueryChars \ Whitespace)

IsPrefix(p, w) == Len(p) <= Len(w) /\ SubSeq(w, 1, Len(p)) = p

\* "term"* : the tokens of the term as a phrase, the last one a prefix; a
\* phrase without tokens matches no row
PhraseMatches(content, term) ==
    LET doc == Tokenize(content)
        phrase == Tokenize(term)
        k == Len(phrase)
    IN /\ k > 0
       /\ \E i \in 1..Len(doc) :
             /\ i + k - 1 <= Len(doc)
             /\ \A j \in 1..(k - 1) : doc[i + j - 1] = phrase[j]
             /\ IsPrefix(phrase[k], doc[i + k - 1])

\* WHERE messages_fts MATCH '"t1"* AND "t2"* ...'
FtsMatch(content, query) ==
    LET terms == TermsOf(query)
    IN \A n \in 1..Len(terms) : PhraseMatches(content, terms[n])

\* FROM messages_fts fts JOIN messages m ON fts.rowid = m.id
\* JOIN chats c ON m.chat_id = c.id WHERE messages_fts MATCH ?
Matching(s, query) ==
    { m \in s.messages :
        /\ \E e \in s.messages_fts : e.rowid = m.id /\ FtsMatch(e.content, query)
        /\ m.chat_id \in ChatIds(s) }

\* terms.map(term => `"${term}"*`).join(' AND ')
RECURSIVE JoinTerms(_)
JoinTerms(terms) ==
    IF terms = <<>> THEN <<>>
    ELSE LET quoted == <<"\"">> \o Head(terms) \o <<"\"", "*">>
         IN IF Len(terms) = 1 THEN quoted
            ELSE quoted \o <<SP, "A", "N", "D", SP>> \o JoinTerms(Tail(terms))

ftsQuery(query) == JoinTerms(TermsOf(query))

\* the fts5 query text f read from position i, inside a string or outside:
\* a string ends at a quote that no quote follows, and the text is
\* rejected when its last string is left open or a '-' stands outside the
\* strings
RECURSIVE Rejected(_, _, _)
Rejected(f, i, inside) ==
    IF i > Len(f) THEN inside
    ELSE IF inside
    THEN IF f[i] = "\"" /\ i < Len(f) /\ f[i + 1] = "\"" THEN Rejected(f, i + 2, TRUE)
         ELSE Rejected(f, i + 1, f[i] # "\"")
    ELSE IF f[i] = "-" THEN TRUE
    ELSE Rejected(f, i + 1, f[i] = "\"")

\* the MATCH throws
MatchFails(query) == Rejected(ftsQuery(query), 1, FALSE)

\* content LIKE pattern: % stands for any characters, _ for one, letters
\* match in either case
RECURSIVE Like(_, _)
Like(content, pattern) ==
    IF pattern = <<>> THEN content = <<>>
    ELSE IF Head(pattern) = "%"
    THEN \E k \in 0..Len(content) :
            Like(SubSeq(content, k + 1, Len(content)), Tail(pattern))
    ELSE /\ content # <<>>
         /\ Head(pattern) = "_" \/ Fold(Head(pattern)) = Fold(Head(content))
         /\ Like(Tail(content), Tail(pattern))

\* ORDER BY m.timestamp DESC, m.id DESC
RECURSIVE NewestFirst(_)
NewestFirst(rows) ==
    IF rows = {} THEN <<>>
    ELSE LET last == CHOOSE r \in rows : \A o \in rows \ {r} : Before(r, o)
         IN Append(NewestFirst(rows \ {last}), last)

\* the fallback: WHERE m.content LIKE '%query%' ORDER BY ... LIMIT ?
LikeResults(s, query, limit) ==
    LimitOffset(NewestFirst({ m \in s.messages :
                    /\ Like(m.content, <<"%">> \o query \o <<"%">>)
                    /\ m.chat_id \in ChatIds(s) }),
                limit, 0)

\* the orders in which the rows of a set can be returned
Orderings(rows) ==
    { seq \in [1..Cardinality(rows) -> rows] :
        \A j, k \in 1..Cardinality(rows) : j # k => seq[j] # seq[k] }

\* ORDER BY rank LIMIT ?: the results of a search, the rank left open
SearchResults(s, query, limit) ==
    IF Trim(query) = <<>> THEN { <<>> }
    ELSE IF MatchFails(query) THEN { LikeResults(s, query, limit) }
    ELSE LET found == Matching(s, query)
             n == IF Cardinality(found) < limit THEN Cardinality(found) ELSE limit
         IN UNION { Orderings(rows) : rows \in { r \in SUBSET found : Cardinality(r) = n } }

\* searchMessages(query, limit)
searchMessages(query, limit) ==
    /\ \E result \in SearchResults(store, query, limit) :
          lastRead' = [NoRead EXCEPT
                          !.op = "searchMessages", !.query = query,
                          !.limit = limit, !.messages = result]
    /\ lastOp' = NoOp
    /\ UNCHANGED <<store, inTransaction, snapshot, call, nCalls, nOps>>
    /\ UNCHANGED <<pvars, rvars, fvars, svars>>

\* the search screen asking for a query
Search(query, limit) == Quiescent /\ FirstRead /\ searchMessages(query, limit)

\* the imports whose messages are searched
SearchImports ==
    { [name |-> "Family", senders |-> <<"Alice">>,
       messages |-> [k \in 1..Len(cs) |->
                        [id |-> k, rawSender |-> "Alice", content |-> cs[k],
                         timestamp |-> 100, type |-> "text",
                         isMediaOmitted |-> FALSE, mediaUri |-> NoUri]]] :
        cs \in UNION { [1..n -> { <<"a">>, <<"a", SP, "b">>, <<"a", "b">>,
                                   <<"b", SP, "A", "b">>, <<"A", "\"">> }] :
                        n \in 1..MaxMsgs } }

InitSearch ==
    InitStore({ Imported(EmptyStore, pd, 0) : pd \in SearchImports })
    /\ InitParser /\ InitScreen /\ Idle

NextSearch ==
    \/ \E q \in UNION { [1..k -> QueryChars] : k \in 0..MaxQuery }, n \in 1..MaxLimit :
          /\ Cardinality({ k \in 1..Len(q) : q[k] = "\"" }) <= 1
          /\ Search(q, n)
    \/ \E id \in 1..MaxChatId : Delete(id)

SpecSearch == InitSearch /\ [][NextSearch]_vars

\* ------------------------------------------------------------------------
\* Analytics dashboard queries
\* ------------------------------------------------------------------------
\* the offset of 'localtime' from UTC on the device, in seconds
TzOffset == 18000

\* COUNT(*), COUNT(DISTINCT date(timestamp / 1000, 'unixepoch', 'localtime'))
\* FROM messages WHERE chat_id = ? AND type != 'system'
getChatStats(s, chatId) ==
    LET rows == { m \in s.messages : m.chat_id = chatId /\ m.type # "system" }
        localDay(m) == ((m.timestamp \div 1000) + TzOffset) \div 86400
    IN [ totalMessages |-> Cardinality(rows),
         activeDays |-> Cardinality({ localDay(m) : m \in rows }) ]

\* the rows getTopSenders may return: one row for each sender_id joined to
\* its sender, the larger counts first, at most limit of them
getTopSenders(s, chatId, limit) ==
    LET joined == { m \in s.messages :
                      /\ m.chat_id = chatId /\ m.type # "system"
                      /\ \E r \in s.senders : r.id = m.sender_id }
        groups == { [ senderName |-> r.name,
                      count |-> Cardinality({ m \in joined : m.sender_id = r.id }) ] :
                    r \in { q \in s.senders :
                              \E m \in joined : m.sender_id = q.id } }
        n == IF limit < Cardinality(groups) THEN limit ELSE Cardinality(groups)
    IN { SubSeq(o, 1, n) :
           o \in { seq \in Orderings(groups) :
                     \A j, k \in 1..Len(seq) :
                        j < k => seq[j].count >= seq[k].count } }

\* the histogram without the test of the type
getUsageByHourOfDayAll(s, chatId) ==
    LET rows == { m \in s.messages : m.chat_id = chatId }
        hourOf(m) == ((((m.timestamp \div 1000) + TzOffset) % 86400) \div 3600)
        hours == { hourOf(m) : m \in rows }
        ascending(groups) ==
           CHOOSE seq \in Orderings(groups) :
              \A j, k \in 1..Len(seq) : j < k => seq[j].id < seq[k].id
    IN ascending({ [ id |-> h, hour |-> h,
                    count |-> Cardinality({ m \in rows : hourOf(m) = h }) ] :
                  h \in hours })

\* strftime('%H', ...) GROUP BY hour ORDER BY hour ASC
getUsageByHourOfDay(s, chatId) ==
    LET rows == { m \in s.messages : m.chat_id = chatId /\ m.type # "system" }
        hourOf(m) == ((((m.timestamp \div 1000) + TzOffset) % 86400) \div 3600)
        hours == { hourOf(m) : m \in rows }
        ascending(groups) ==
           CHOOSE seq \in Orderings(groups) :
              \A j, k \in 1..Len(seq) : j < k => seq[j].id < seq[k].id
    IN ascending({ [ id |-> h, hour |-> h,
                    count |-> Cardinality({ m \in rows : hourOf(m) = h }) ] :
                  h \in hours })

\* strftime('%w', ...) GROUP BY dayNum ORDER BY dayNum ASC; 0 is Sunday and
\* 1970-01-01 was a Thursday
getUsageByDayOfWeek(s, chatId) ==
    LET rows == { m \in s.messages : m.chat_id = chatId /\ m.type # "system" }
        dayNum(m) == ((((m.timestamp \div 1000) + TzOffset) \div 86400) + 4) % 7
        daysMap == << "Sunday", "Monday", "Tuesday", "Wednesday", "Thursday",
                      "Friday", "Saturday" >>
        ascending(groups) ==
           CHOOSE seq \in Orderings(groups) :
              \A j, k \in 1..Len(seq) : j < k => seq[j].id < seq[k].id
    IN ascending({ [ id |-> d, day |-> daysMap[d + 1],
                    count |-> Cardinality({ m \in rows : dayNum(m) = d }) ] :
                  d \in { dayNum(m) : m \in rows } })

\* fetchAnalytics: the four queries of the dashboard, on a store at rest
fetchAnalytics(chatId, limit) ==
    /\ Quiescent
    /\ FirstRead
    /\ \E top \in getTopSenders(store, chatId, limit) :
          lastRead' = [NoRead EXCEPT
                          !.op = "fetchAnalytics", !.chatId = chatId,
                          !.limit = limit,
                          !.stats = getChatStats(store, chatId),
                          !.topSenders = top,
                          !.dayUsage = getUsageByDayOfWeek(store, chatId),
                          !.hourUsage = getUsageByHourOfDay(store, chatId)]
    /\ lastOp' = NoOp
    /\ UNCHANGED <<store, inTransaction, snapshot, call, nCalls, nOps>>
    /\ UNCHANGED <<pvars, rvars, fvars, svars>>

\* the chats the dashboard is opened on: an earlier import and one whose
\* messages fall on different local days and hours
InitAnalytics ==
    /\ InitStore(
         { Imported(Imported(EmptyStore, EarlierImport, 0),
                    [ name |-> "Family",
                      senders |-> SendersOf(ms),
                      messages |-> ms ], 1) :
             ms \in UNION { [1..n ->
                  { [ id |-> 0, rawSender |-> sn, content |-> "hi", timestamp |-> t,
                      type |-> IF sn = "System" THEN "system" ELSE "text",
                      isMediaOmitted |-> FALSE, mediaUri |-> NoUri ] :
                    sn \in {"Alice", "Bob", "System"},
                    t \in {0, 72000000, 259200000} }] : n \in 1..(MaxMsgs + 1) } })
    /\ InitParser /\ InitScreen /\ Idle

NextAnalytics ==
    \/ \E id \in 1..MaxChatId, limit \in 1..(MaxLimit + 1) : fetchAnalytics(id, limit)
    \/ \E id \in 1..MaxChatId : Delete(id)

SpecAnalytics == InitAnalytics /\ [][NextAnalytics]_vars

\* ------------------------------------------------------------------------
\* The chat screen: pages of getMessages appended as the list is scrolled
\* ------------------------------------------------------------------------
\* fetchMessages(pageNum) up to its await getMessages(...)
fetchMessages(pageNum) ==
    /\ nFetches < MaxFetches
    /\ ~(~hasMore /\ pageNum > 0)
    /\ isLoading' = IF pageNum = 0 THEN TRUE ELSE isLoading
    /\ fetching' = fetching \cup {[pageNum |-> pageNum, call |-> nFetches + 1]}
    /\ nFetches' = nFetches + 1
    /\ UNCHANGED <<uiMessages, page, hasMore, mediaMap>>
    /\ UNCHANGED <<dbvars, pvars, rvars, fvars>>

\* useEffect(() => { fetchMessages(0) }, [id, msgId])
Mount == nFetches = 0 /\ fetchMessages(0)

\* onEndReached={() => { if (!isLoading && hasMore) fetchMessages(page + 1) }}
onEndReached ==
    /\ nFetches > 0
    /\ ~isLoading /\ hasMore
    /\ fetchMessages(page + 1)

\* getMessages has answered: the rest of fetchMessages
Fetched(f) ==
    /\ f \in fetching
    /\ LET newMessages == SelectMessages(store, 1, PageSize, f.pageNum * PageSize)
       IN /\ hasMore' = IF Len(newMessages) < PageSize THEN FALSE ELSE hasMore
          /\ uiMessages' = IF f.pageNum = 0 THEN newMessages
                           ELSE uiMessages \o newMessages
    /\ page' = f.pageNum
    /\ isLoading' = FALSE
    /\ fetching' = fetching \ {f}
    /\ UNCHANGED <<nFetches, mediaMap>>
    /\ UNCHANGED <<dbvars, pvars, rvars, fvars>>

InitChat ==
    /\ InitStore({ Imported(EmptyStore, pd, 0) : pd \in ParseResults })
    /\ InitParser /\ InitScreen /\ Idle

NextChat ==
    \/ Mount
    \/ onEndReached
    \/ \E f \in fetching : Fetched(f)

SpecChat == InitChat /\ [][NextChat]_vars

\* ------------------------------------------------------------------------
\* LineBuffer, fed by readLinesInChunks
\* ------------------------------------------------------------------------
Chars == {"a", CR, NL}

Texts == UNION { [1..n -> Chars] : n \in 0..MaxText }

\* String.prototype.split(/\r?\n/): cur is the piece being scanned; a
\* newline closes it, without the carriage return right before the newline
RECURSIVE SplitFrom(_, _)
SplitFrom(t, cur) ==
    IF t = <<>> THEN <<cur>>
    ELSE IF Head(t) = NL
         THEN <<IF cur # <<>> /\ cur[Len(cur)] = CR
                THEN SubSeq(cur, 1, Len(cur) - 1) ELSE cur>>
              \o SplitFrom(Tail(t), <<>>)
         ELSE SplitFrom(Tail(t), Append(cur, Head(t)))

SplitLines(t) == SplitFrom(t, <<>>)

\* addChunk that hands out the partial last piece as well
addChunkNoHoldBack(buf, chunk, isLastChunk) ==
    [buffer |-> <<>>, lines |-> SplitLines(buf \o chunk)]

\* addChunk(chunk, isLastChunk): the new buffer and the returned array
addChunk(buf, chunk, isLastChunk) ==
    LET lines == SplitLines(buf \o chunk)
    IN IF isLastChunk
       THEN [buffer |-> <<>>, lines |-> lines]
       ELSE [buffer |-> lines[Len(lines)],
             lines |-> SubSeq(lines, 1, Len(lines) - 1)]

\* one iteration of the while loop of readLinesInChunks: the next length
\* characters are read and handed to buffer.addChunk
ReadChunk(length, isLastChunk) ==
    /\ ~finished
    /\ fed + length <= Len(text)
    /\ isLastChunk => fed + length = Len(text)
    /\ LET r == addChunk(buffer, SubSeq(text, fed + 1, fed + length), isLastChunk)
       IN /\ buffer' = r.buffer
          /\ emitted' = emitted \o r.lines
    /\ fed' = fed + length
    /\ finished' = isLastChunk
    /\ straddled' = (\/ straddled
                     \/ /\ fed + length >= 1
                        /\ fed + length < Len(text)
                        /\ text[fed + length] = CR
                        /\ text[fed + length + 1] = NL)
    /\ UNCHANGED text
    /\ UNCHANGED <<dbvars, pvars, fvars, svars>>

InitChunks ==
    InitStore({EmptyStore}) /\ InitParser /\ InitScreen /\ InitLineBuffer(Texts)
    /\ InitFunction({NoInput})

NextChunks ==
    \/ \E n \in 0..MaxText, last \in BOOLEAN : ReadChunk(n, last)

SpecChunks == InitChunks /\ [][NextChunks]_vars

\* ------------------------------------------------------------------------
\* Properties
\* ------------------------------------------------------------------------
ChatRowsOf(s, imp) == { c \in s.chats : c.import = imp }
MessageRowsOf(s, imp) == { m \in s.messages : m.import = imp }

\* C2: when a statement of insertParsedChat fails after the chat row was
\* inserted, the call throws (it never returns normally) and the store then
\* holds no chat row, no message row and no index entry of that import.
C2_FailedImportLeavesNothing ==
    \A c \in Callers :
        /\ call[c].pc = "returned" => ~call[c].failed
        /\ (call[c].pc = "threw" /\ call[c].insertedChatId # 0) =>
              /\ ChatRowsOf(store, call[c].import) = {}
              /\ MessageRowsOf(store, call[c].import) = {}
              /\ \A e \in store.messages_fts : e.rowid \notin call[c].rowids

\* a call threw after its chat row and at least one message row were inserted
C2_Witness ==
    \E c \in Callers :
        /\ call[c].pc = "threw"
        /\ call[c].insertedChatId # 0
        /\ call[c].rowids # {}
        /\ call[c].total > Cardinality(call[c].rowids)

\* C3: the full-text index holds exactly one entry per message row, keyed by
\* the row's id and holding its current content, and no other entry.
C3_IndexMatchesMessages ==
    /\ store.messages_fts =
          { [rowid |-> m.id, content |-> m.content] : m \in store.messages }
    /\ \A m1, m2 \in store.messages : m1.id = m2.id => m1 = m2

\* a message was just updated, after imports and with messages in the store
C3_Witness ==
    /\ lastOp.op = "update"
    /\ \E m \in store.messages : m.id = lastOp.id /\ m.import > 0
    /\ Cardinality(store.messages) > 1

\* C7: no two sender rows share a name, and messages with the same parsed
\* sender name reference the same sender id, within and across chats.
C7_SendersDeduplicated ==
    /\ \A r1, r2 \in store.senders : (r1.name = r2.name \/ r1.id = r2.id) => r1 = r2
    /\ \A m1, m2 \in store.messages :
          m1.rawSender = m2.rawSender => m1.sender_id = m2.sender_id
    /\ \A m \in store.messages :
          m.sender_id # NULL =>
              \E r \in store.senders : r.id = m.sender_id /\ r.name = m.rawSender

\* two committed chats hold messages of the same sender, and another sender
\* row exists
C7_Witness ==
    /\ Quiescent
    /\ \E m1, m2 \in store.messages :
          /\ m1.chat_id # m2.chat_id
          /\ m1.rawSender = m2.rawSender
          /\ m1.sender_id # NULL
    /\ Cardinality(store.senders) > 1

\* C8: deleteChatById(chatId) removes the chat row, the chat's message rows
\* and their index entries, and changes nothing of any other chat.
C8_DeleteRemovesExactlyTheChat ==
    [][ lastOp'.op = "delete" =>
          LET gone == { m.id : m \in { x \in store.messages : x.chat_id = lastOp'.id } }
          IN /\ store'.chats = { c \in store.chats : c.id # lastOp'.id }
             /\ store'.messages = { m \in store.messages : m.chat_id # lastOp'.id }
             /\ store'.messages_fts = { e \in store.messages_fts : e.rowid \notin gone }
             /\ store'.senders = store.senders ]_vars

\* a chat with messages was just deleted and another chat with messages remains
C8_Witness ==
    /\ lastOp.op = "delete"
    /\ store.sqlite_sequence.messages > Cardinality(store.messages)
    /\ store.chats # {}
    /\ store.messages # {}

\* C9: a read that runs while an insertParsedChat call is in progress returns
\* neither the call's chat row nor a strict subset of its messages.
C9_ReadsSeeNoUncommittedChat ==
    \A c \in Callers :
        (InFlight(c) /\ call[c].insertedChatId # 0) =>
            /\ lastRead.op = "getChats" =>
                  \A r \in lastRead.chats : r.import # call[c].import
            /\ lastRead.op = "getMessages" =>
                  LET mine == { k \in 1..Len(lastRead.messages) :
                                  lastRead.messages[k].import = call[c].import }
                  IN Cardinality(mine) \in {0, call[c].total}

\* C10: overlapping insertParsedChat calls are independent: the ROLLBACK of
\* one removes no row of the other, a call that returns has its chat row and
\* all of its messages in the store, and a call that throws has none.
C10_OverlappingImportsIndependent ==
    [][ \A c \in Callers :
          /\ \A d \in Callers \ {c} :
                (call[d].pc = "rollback" /\ call'[d].pc = "threw" /\ InFlight(c)) =>
                    /\ ChatRowsOf(store', call[c].import) = ChatRowsOf(store, call[c].import)
                    /\ MessageRowsOf(store', call[c].import) = MessageRowsOf(store, call[c].import)
          /\ (InFlight(c) /\ call'[c].pc = "returned") =>
                /\ Cardinality(ChatRowsOf(store', call[c].import)) = 1
                /\ Cardinality(MessageRowsOf(store', call[c].import)) = call[c].total
          /\ (InFlight(c) /\ call'[c].pc = "threw") =>
                /\ ChatRowsOf(store', call[c].import) = {}
                /\ MessageRowsOf(store', call[c].import) = {} ]_vars

\* ------------------------------------------------------------------------
\* Properties of parseWhatsAppChat
\* ------------------------------------------------------------------------
\* the line has the timestamp prefix of the dialect of the first match
IsHead(l) ==
    Dialect(sanitizeContent(l)) = firstMatch.dialect

\* the positions in consumed of the message heads
HeadPositions == {k \in 1..Len(consumed) : IsHead(consumed[k])}

\* the position of the head the line at position k belongs to
HeadOf(k) == CHOOSE h \in HeadPositions :
                 h <= k /\ \A g \in HeadPositions : g <= k => g <= h

\* the lines at positions from..to that belong to head h and are not heads,
\* each sanitized and preceded by one newline, in input order
RECURSIVE JoinedLines(_, _, _)
JoinedLines(h, from, to) ==
    IF from > to THEN <<>>
    ELSE (IF ~IsHead(consumed[from]) /\ HeadOf(from) = h
          THEN <<NL>> \o sanitizeContent(consumed[from]) ELSE <<>>)
         \o JoinedLines(h, from + 1, to)

\* the j-th smallest head position
NthHead(j) == CHOOSE h \in HeadPositions :
                 Cardinality({g \in HeadPositions : g <= h}) = j

\* C1: once the platform is known, every line without the locked dialect's
\* timestamp prefix, blank lines included, is appended sanitized to the most
\* recently created message with exactly one newline in front, in input
\* order: there is one message per head line, and the content of each is the
\* body of its head followed by its continuation lines, none dropped and none
\* attached to another message.
C1_ContinuationLinesAppended ==
    /\ Len(messages) = Cardinality(HeadPositions)
    /\ \A j \in 1..Len(messages) :
          LET h == NthHead(j)
          IN messages[j].content =
                SenderAndMessage(BodyPart(sanitizeContent(consumed[h]))).body
                \o JoinedLines(h, 1, Len(consumed))

\* a message continued by a blank line and then by a line that sanitizing
\* changes
C1_Witness ==
    /\ Len(messages) = 1
    /\ Len(consumed) = 3
    /\ consumed[2] = <<>>
    /\ consumed[3] = <<"b", SP, "LRM">>
    /\ messages[1].content = <<"b", NL, NL, "b">>

\* C4: when 50 non-blank lines have passed without a timestamp prefix and
\* the stream has a further non-blank line, with or without a prefix, the
\* parser returns platform 'unknown', no message and exactly one warning:
\* no later line became a message.
C4_UnrecognizedFormatHalts ==
    (/\ pc = "done"
     /\ unclassified > DetectLimit \/ firstMatch.late)
    => /\ platform = "unknown"
       /\ messages = <<>>
       /\ warnings = <<"format not recognized">>

\* C5: a line read before the first message head that has no timestamp prefix
\* adds exactly one 'orphaned line' warning when it is not blank and none when
\* it is blank, and no message is created or changed.
C5_OrphanedLinesWarned ==
    [][(/\ currentLineNumber' = currentLineNumber + 1
        /\ firstMatch'.dialect = "none")
       => /\ messages' = messages
          /\ warnings' = IF Trim(sanitizeContent(rawLine')) # <<>>
                         THEN Append(warnings, "orphaned line")
                         ELSE warnings]_vars

\* the line has the timestamp prefix of the dialect that is not plat
OtherDialect(plat, line) ==
    Dialect(line) # "unknown" /\ Dialect(line) # plat

\* C6: the platform changes only from 'unknown', to the dialect of the first
\* line that has a timestamp prefix, and never afterwards; a later line with
\* the other dialect's prefix continues the active message and is no new head.
C6_PlatformLocksOnce ==
    [][/\ platform' # platform
          => /\ platform = "unknown"
             /\ firstMatch.dialect = "none"
             /\ platform' = firstMatch'.dialect
             /\ platform' \in {"android", "ios"}
       /\ (/\ currentLineNumber' = currentLineNumber + 1
           /\ platform # "unknown"
           /\ OtherDialect(platform, sanitizeContent(rawLine')))
          => /\ Len(messages') = Len(messages)
             /\ lastMessage' = lastMessage
             /\ messages' = [messages EXCEPT ![lastMessage].content =
                                @ \o <<NL>> \o sanitizeContent(rawLine'),
                             ![lastMessage].rawText =
                                @ \o <<NL>> \o rawLine']]_vars

\* an Android export in which an iOS head line was read after the first head
C6_Witness ==
    /\ platform = "android"
    /\ firstMatch.dialect = "android"
    /\ Len(consumed) = 2
    /\ rawLine = <<"I", "a", ":", SP, "a">>
    /\ Len(messages) = 1
    /\ messages[1].content = <<"b", NL, "I", "a", ":", SP, "a">>

\* ------------------------------------------------------------------------
\* Properties of the paginated reads
\* ------------------------------------------------------------------------
\* getMessages(chatId, limit, 0), getMessages(chatId, limit, limit), ...
\* concatenated, up to and including page number last
RECURSIVE Pages(_, _, _, _)
Pages(s, chatId, limit, last) ==
    IF last < 0 THEN <<>>
    ELSE Pages(s, chatId, limit, last - 1)
         \o SelectMessages(s, chatId, limit, last * limit)

\* C11: for every chat and every limit >= 1 the pages of getMessages at
\* offsets 0, limit, 2*limit, ... concatenated hold every message of the chat
\* exactly once, in ascending (timestamp, id) order, also when messages share
\* a timestamp; and a getMessages call returns the rows that its arguments
\* and the store determine.
C11_PagesCoverChatInOrder ==
    /\ \A chatId \in ChatIds(store), limit \in 1..MaxLimit :
          LET rows == { m \in store.messages : m.chat_id = chatId }
              all == Pages(store, chatId, limit, Cardinality(rows))
          IN /\ Len(all) = Cardinality(rows)
             /\ { all[k] : k \in 1..Len(all) } = rows
             /\ \A j, k \in 1..Len(all) :
                   j < k => \/ all[j].timestamp < all[k].timestamp
                            \/ /\ all[j].timestamp = all[k].timestamp
                               /\ all[j].id < all[k].id
    /\ lastRead.op = "getMessages" =>
          LET all == Pages(store, lastRead.chatId, lastRead.limit,
                           lastRead.offset \div lastRead.limit)
          IN \A k \in 1..Len(all) :
                k > lastRead.offset =>
                    /\ k - lastRead.offset <= Len(lastRead.messages)
                    /\ lastRead.messages[k - lastRead.offset] = all[k]

\* the second page of a chat was read, and its row shares its timestamp with
\* the row of the first page
C11_Witness ==
    /\ lastRead.op = "getMessages"
    /\ lastRead.limit = 1
    /\ lastRead.offset = 1
    /\ Len(lastRead.messages) = 1
    /\ \E m \in store.messages :
          /\ m.chat_id = lastRead.chatId
          /\ m.timestamp = lastRead.messages[1].timestamp
          /\ m.id < lastRead.messages[1].id

\* the position of row m in what getMessages returns for its chat, all of
\* the chat in one page
PositionOf(s, m) ==
    LET all == SelectMessages(s, m.chat_id, Cardinality(s.messages), 0)
    IN CHOOSE k \in 1..Len(all) : all[k] = m

\* C12: of two messages of one export in the same chat, the one whose head
\* line came earlier has the smaller persisted id, also when another ingest
\* interleaves; when their timestamps are equal, getMessages returns it
\* first.
C12_IdOrderIsLineOrder ==
    \A m1, m2 \in store.messages :
        (/\ m1.chat_id = m2.chat_id
         /\ m1.import = m2.import
         /\ m1.line < m2.line)
        => /\ m1.id < m2.id
           /\ m1.timestamp = m2.timestamp
                 => PositionOf(store, m1) < PositionOf(store, m2)

\* two calls overlapped, and a chat holds two messages of one export with
\* equal timestamps
C12_Witness ==
    /\ nCalls > 1
    /\ \E m1, m2 \in store.messages :
          /\ m1.chat_id = m2.chat_id
          /\ m1.import = m2.import
          /\ m1.import > 0
          /\ m1.line < m2.line
          /\ m1.timestamp = m2.timestamp

\* ------------------------------------------------------------------------
\* Properties of LineBuffer
\* ------------------------------------------------------------------------
\* the positions of the newlines of t, and the k-th of them
Newlines(t) == { i \in 1..Len(t) : t[i] = NL }

NewlineAt(t, k) ==
    IF k = 0 THEN 0
    ELSE CHOOSE i \in Newlines(t) :
            Cardinality({ j \in Newlines(t) : j <= i }) = k

\* t split on LF with an optional preceding CR: piece k runs from behind
\* newline k-1 to before newline k (less the CR before it), the last piece
\* to the end of t
PieceOf(t, k) ==
    LET from == NewlineAt(t, k - 1) + 1
        n == Cardinality(Newlines(t))
        to == IF k = n + 1 THEN Len(t)
              ELSE LET nl == NewlineAt(t, k)
                   IN IF nl - 1 >= from /\ t[nl - 1] = CR THEN nl - 2 ELSE nl - 1
    IN SubSeq(t, from, to)

LinesOf(t) == [k \in 1..(Cardinality(Newlines(t)) + 1) |-> PieceOf(t, k)]

\* C13: however the text is cut into chunks, the arrays returned by addChunk,
\* concatenated, are the lines of the text (split on LF with an optional
\* preceding CR) once the final chunk has been passed; before that they are
\* the lines of the characters fed so far without the last, unterminated
\* piece, which is held in the buffer.
C13_ChunksYieldTheLines ==
    /\ finished => emitted = LinesOf(text) /\ buffer = <<>>
    /\ ~finished =>
          LET sofar == LinesOf(SubSeq(text, 1, fed))
          IN /\ emitted = SubSeq(sofar, 1, Len(sofar) - 1)
             /\ buffer = sofar[Len(sofar)]

\* the text a CR LF was read to the end in chunks, one of which ended
\* between the CR and the LF
C13_Witness ==
    /\ finished
    /\ straddled
    /\ text = <<"a", CR, NL>>
    /\ emitted = << <<"a">>, <<>> >>

\* ------------------------------------------------------------------------
\* Properties of the senders of an import
\* ------------------------------------------------------------------------
\* C14: the senders of a ParseResult are exactly the sender names of its
\* messages other than 'System', which is never among them; and the import
\* of a ParseResult stores a sender row for each of them and none named
\* 'System': a message of that sender is stored without a sender.
C14_SystemIsNoSender ==
    /\ { senders[k] : k \in 1..Len(senders) }
          = { messages[k].rawSender : k \in 1..Len(messages) } \ {<<"System">>}
    /\ \A r \in store.senders : r.name # "System"
    /\ nCalls = 1 =>
          /\ { r.name : r \in store.senders }
                = { Text(senders[k]) : k \in 1..Len(senders) }
          /\ \A m \in store.messages :
                IF m.rawSender = "System" THEN m.sender_id = NULL
                ELSE \E r \in store.senders :
                        r.name = m.rawSender /\ r.id = m.sender_id

\* an export with a message of a participant called System and a message of
\* another participant was parsed and stored
C14_Witness ==
    /\ nCalls = 1
    /\ \E k \in 1..Len(messages) :
          /\ messages[k].rawSender = <<"System">>
          /\ messages[k].rawText = <<"T", "System", ":", SP, "b">>
    /\ \E m \in store.messages : m.rawSender = "System" /\ m.content = "b"
    /\ \E m \in store.messages : m.rawSender = "a"
    /\ Cardinality(store.senders) = 1

\* ------------------------------------------------------------------------
\* Properties of the line classifier
\* ------------------------------------------------------------------------
\* C15: every line made of a timestamp prefix of Dialect A or B (separators
\* '/', '.' or '-', a year of 2 to 4 digits, an optional AM/PM marker) and a
\* remainder is classified as a head line with exactly that date text and
\* time text, the sender before the first colon-space and the body behind
\* it, possibly empty; a remainder without colon-space gives a message of
\* 'System' whose body is the whole remainder.
C15_HeadLinesClassified ==
    output.fn = "classifyLine" =>
        /\ output.head
        /\ output.date = input.date
        /\ output.time = input.time
        /\ output.sender = input.sender
        /\ output.body = input.body

\* ------------------------------------------------------------------------
\* Properties of the message-type detector
\* ------------------------------------------------------------------------
\* C16: detectMessageType returns the category of the first rule that
\* matches, in the order system sender, media-omitted marker (image),
\* attached-file marker (category by extension, document by default), exact
\* deletion phrase (deleted), missed-call phrase (call_log), location marker
\* (location), otherwise text, whatever other markers the body holds.
C16_FirstMatchingRuleWins ==
    output.fn = "detectMessageType" =>
        LET body == toLowerCase(input.content)
            has(markers) == \E i \in 1..Len(body) : body[i] \in markers
            bySystem == input.sender = "System"
            omitted == has({"<media omitted>"})
            attached == has({"(file attached)"})
            deletion == Len(body) = 1 /\ body[1] \in DeletionPhrases
            missed == has(CallPhrases)
            location == \/ has(MapDomains) \/ has({"live location"})
                        \/ (Len(body) > 0 /\ body[1] = "location: ")
            byExtension == {"image", "video", "audio", "sticker", "contact", "document"}
        IN /\ bySystem => output.type = "system"
           /\ ~bySystem /\ omitted => output.type = "image"
           /\ ~bySystem /\ ~omitted /\ attached =>
                /\ output.type \in byExtension
                /\ has(ImageExtensions) => output.type = "image"
                /\ ~has(ImageExtensions \cup VideoExtensions \cup AudioExtensions
                         \cup {".webp", ".vcf"}) => output.type = "document"
           /\ ~bySystem /\ ~omitted /\ ~attached /\ deletion => output.type = "deleted"
           /\ ~bySystem /\ ~omitted /\ ~attached /\ ~deletion /\ missed =>
                output.type = "call_log"
           /\ ~bySystem /\ ~omitted /\ ~attached /\ ~deletion /\ ~missed /\ location =>
                output.type = "location"
           /\ ~bySystem /\ ~omitted /\ ~attached /\ ~deletion /\ ~missed /\ ~location =>
                output.type = "text"

\* an attached file whose body also holds a maps URL has been classified
C16_Witness ==
    /\ output.fn = "detectMessageType"
    /\ input.sender # "System"
    /\ input.content = <<"(File Attached)", "maps.google.com">>
    /\ output.type = "document"

\* ------------------------------------------------------------------------
\* Properties of the date resolver
\* ------------------------------------------------------------------------
\* C17: for all date fields (f1, f2, y) the resolver picks day f1 and month
\* f2 when f1 > 12, whatever f2 is; month f1 and day f2 when f1 <= 12 and
\* f2 > 12; day f1 and month f2 when both are at most 12; and it reads a
\* year below 100 as 2000 + y.
C17_DayMonthResolution ==
    output.fn = "parseDate" =>
        /\ ~output.now
        /\ input.f1 > 12 => output.day = input.f1 /\ output.month + 1 = input.f2
        /\ input.f1 <= 12 /\ input.f2 > 12 =>
               output.month + 1 = input.f1 /\ output.day = input.f2
        /\ input.f1 <= 12 /\ input.f2 <= 12 =>
               output.day = input.f1 /\ output.month + 1 = input.f2
        /\ output.year = IF input.y < 100 THEN 2000 + input.y ELSE input.y
        /\ (/\ output.month <= 11
            /\ output.day <= DaysIn(output.year, output.month + 1)
            /\ input.hour <= 23)
           => /\ output.time.year = output.year
              /\ output.time.month = output.month + 1
              /\ output.time.day = output.day

\* each of the three cases has been resolved: both fields above 12, the
\* second only, and both at most 12 and different, with a two-digit year
C17_Witness ==
    /\ output.fn = "parseDate"
    /\ input.f1 = 5 /\ input.f2 = 6 /\ input.y = 21
    /\ output.day = 5 /\ output.month = 5 /\ output.year = 2021
    /\ output.time.month = 6

\* C18: when the date and time of a head line name no valid calendar
\* instant (day 31 of month 2, month 13 with day 25, hour 25) the resolver
\* returns the current instant, not a shifted date.
C18_InvalidInstantGivesNow ==
    output.fn = "parseDate" =>
        LET day == IF input.f1 > 12 \/ input.f2 <= 12 THEN input.f1 ELSE input.f2
            month == IF input.f1 > 12 \/ input.f2 <= 12 THEN input.f2 ELSE input.f1
            year == IF input.y < 100 THEN 2000 + input.y ELSE input.y
            hour == IF input.marker # <<>> /\ input.marker[2] \in {"P", "p"}
                       /\ input.hour < 12
                    THEN input.hour + 12 ELSE input.hour
            valid == /\ month \in 1..12
                     /\ day \in 1..DaysIn(year, month)
                     /\ hour \in 0..23
        IN ~valid => output.now

\* ------------------------------------------------------------------------
\* Properties of the neighbourhood read
\* ------------------------------------------------------------------------
\* C19: getMessageNeighborhood(chatId, anchor, w) returns, sorted by id
\* ascending and without duplicates, exactly the floor(w/2) messages of the
\* chat with the largest ids <= anchor and the floor(w/2) messages of the
\* chat with the smallest ids > anchor (fewer when the chat has fewer on
\* that side), never a message of another chat, never more than w messages.
C19_NeighborhoodWindow ==
    lastRead.op = "getMessageNeighborhood" =>
        LET got == lastRead.messages
            rows == { got[k] : k \in 1..Len(got) }
            chat == { m \in store.messages : m.chat_id = lastRead.chatId }
            older == { m \in chat : m.id <= lastRead.target }
            newer == { m \in chat : m.id > lastRead.target }
            half == lastRead.limit \div 2
            Min(a, b) == IF a < b THEN a ELSE b
        IN /\ \A j, k \in 1..Len(got) : j < k => got[j].id < got[k].id
           /\ rows \subseteq chat
           /\ Len(got) <= lastRead.limit
           /\ Cardinality(rows \cap older) = Min(half, Cardinality(older))
           /\ Cardinality(rows \cap newer) = Min(half, Cardinality(newer))
           /\ \A m \in rows \cap older, o \in older \ rows : o.id < m.id
           /\ \A m \in rows \cap newer, o \in newer \ rows : m.id < o.id

\* a window was read that holds the target and the next message of its
\* chat, while a message of another chat has a smaller id than the target
C19_Witness ==
    /\ lastRead.op = "getMessageNeighborhood"
    /\ Len(lastRead.messages) = 2
    /\ lastRead.messages[1].id = lastRead.target
    /\ \E m \in store.messages : m.chat_id # lastRead.chatId /\ m.id < lastRead.target

\* ------------------------------------------------------------------------
\* Properties of the search
\* ------------------------------------------------------------------------
\* C20: searchMessages(query, limit) with a non-blank query returns at most
\* limit messages, each of which holds, for every whitespace-separated term
\* of the query, a word that starts with that term (letter case aside), and
\* it returns every such message when there are at most limit of them; a
\* blank query returns the empty list.
C20_SearchReturnsPrefixMatches ==
    lastRead.op = "searchMessages" =>
        LET got == lastRead.messages
            rows == { got[k] : k \in 1..Len(got) }
            terms == TermsOf(lastRead.query)
            folded(t) == [j \in 1..Len(t) |-> Fold(t[j])]
            words(content) == RunsOf(content, {"a", "b", "A", "B", "-", "_", "\""})
            startsWith(word, term) ==
                /\ Len(term) <= Len(word)
                /\ folded(SubSeq(word, 1, Len(term))) = folded(term)
            holds(content) ==
                \A n \in 1..Len(terms) :
                    \E k \in 1..Len(words(content)) :
                        startsWith(words(content)[k], terms[n])
            such == { m \in store.messages : holds(m.content) }
        IN IF Trim(lastRead.query) = <<>> THEN got = <<>>
           ELSE ~MatchFails(lastRead.query) =>
                /\ Len(got) <= lastRead.limit
                /\ \A m \in rows : holds(m.content)
                /\ Cardinality(such) <= lastRead.limit => rows = such

\* C21: when the structured index query fails (a term with a double quote)
\* searchMessages returns the messages whose content holds the raw query
\* text as a substring (letter case aside), at most limit of them.
C21_FallbackIsSubstringScan ==
    (lastRead.op = "searchMessages" /\ Trim(lastRead.query) # <<>>
     /\ MatchFails(lastRead.query)) =>
        LET got == lastRead.messages
            rows == { got[k] : k \in 1..Len(got) }
            q == lastRead.query
            folded(t) == [j \in 1..Len(t) |-> Fold(t[j])]
            contains(content) ==
                \E i \in 1..(Len(content) - Len(q) + 1) :
                    folded(SubSeq(content, i, i + Len(q) - 1)) = folded(q)
            such == { m \in store.messages : contains(m.content) }
        IN /\ Len(got) <= lastRead.limit
           /\ Len(got) = Cardinality(rows)
           /\ rows \subseteq such
           /\ Cardinality(such) <= lastRead.limit => rows = such
           /\ Cardinality(rows) = lastRead.limit \/ rows = such

\* C22: after the ParseResult of parseWhatsAppChat is ingested, a message
\* row has a NULL sender_id exactly when its type is 'system', and every
\* other row references the sender row named as the sender of its head line.
C22_NullSenderIffSystem ==
    nCalls = 1 =>
       \A m \in store.messages :
          \E k \in 1..Len(messages) :
             /\ messages[k].id = m.line
             /\ m.type = messages[k].type
             /\ (m.sender_id = NULL) <=> (m.type = "system")
             /\ m.type # "system" =>
                   \E r \in store.senders :
                      /\ r.id = m.sender_id
                      /\ r.name = Text(messages[k].rawSender)

\* an export with a system line and a participant's message was ingested
C22_Witness ==
    /\ nCalls = 1
    /\ \E m \in store.messages : m.type = "system" /\ m.sender_id = NULL
    /\ \E m \in store.messages : m.type = "text" /\ m.sender_id # NULL

\* C23: after a zip import, every message whose body names an attachment
\* file that the media map holds under its lower-cased name is stored with
\* media_uri set to that file's local URI and is_media_omitted false.
C23_AttachmentsLinked ==
    nCalls = 1 =>
       \A m \in store.messages : \A k \in 1..Len(messages) :
          messages[k].id = m.line =>
             LET name == extractAttachmentFilename(messages[k].content)
             IN \A e \in mediaMap :
                   (name # <<>> /\ e.name = toLowerCase(name)) =>
                      m.media_uri = e.uri /\ m.is_media_omitted = FALSE

\* C24: an import that parses at least one message and whose ingest
\* returns has created exactly one chat row; an import whose parse yields
\* no message enters no ingest and one whose ingest throws leaves no chat
\* row; and no step changes the fields of a chat row that exists.
C24_ChatCreatedOncePerImport ==
    [][ /\ \A c \in Callers :
             /\ (InFlight(c) /\ call'[c].pc = "returned") =>
                   /\ call[c].total >= 1
                   /\ Cardinality(ChatRowsOf(store', call[c].import)) = 1
                   /\ Cardinality(store'.chats) = Cardinality(snapshot.chats) + 1
             /\ (InFlight(c) /\ call'[c].pc = "threw") =>
                   /\ ChatRowsOf(store', call[c].import) = {}
                   /\ store'.chats = snapshot.chats \/ call[c].insertedChatId = 0
        /\ (pc = "done" /\ messages = <<>>) => (call' = call /\ nCalls' = 0)
        /\ (nCalls' = 0) => (store'.chats \subseteq store.chats)
        /\ \A r \in store.chats : \A q \in store'.chats :
              q.id = r.id => q = r ]_vars

\* an import has returned and its chat row stands beside an earlier one
C24_Witness ==
    /\ call[1].pc = "returned"
    /\ Cardinality(ChatRowsOf(store, call[1].import)) = 1
    /\ Cardinality(store.chats) = 2

\* C25: for every chat, totalMessages of getChatStats is the number of its
\* messages that are not of type 'system', and it is the sum of the counts
\* of getUsageByDayOfWeek, of getUsageByHourOfDay, and of getTopSenders when
\* the limit is at least the number of senders in the chat.
C25_AnalyticsTotalsAgree ==
    lastRead.op = "fetchAnalytics" =>
       LET RECURSIVE SumOf(_)
           SumOf(rows) == IF rows = <<>> THEN 0
                          ELSE Head(rows).count + SumOf(Tail(rows))
           ofChat == { m \in store.messages : m.chat_id = lastRead.chatId }
           total == lastRead.stats.totalMessages
           nSenders == Cardinality({ m.sender_id : m \in ofChat } \ {NULL})
       IN /\ total = Cardinality({ m \in ofChat : m.type # "system" })
          /\ SumOf(lastRead.dayUsage) = total
          /\ SumOf(lastRead.hourUsage) = total
          /\ lastRead.limit >= nSenders => SumOf(lastRead.topSenders) = total

\* the dashboard of a chat with a system message and messages of two
\* senders on two local days
C25_Witness ==
    /\ lastRead.op = "fetchAnalytics"
    /\ lastRead.stats.totalMessages = 2
    /\ Len(lastRead.dayUsage) = 2
    /\ Len(lastRead.topSenders) = 2
    /\ \E m \in store.messages :
          m.chat_id = lastRead.chatId /\ m.type = "system"

\* C26: sanitizeContent applied to its own output returns that output: the
\* output holds no directional mark and neither starts nor ends with white
\* space.
C26_SanitizeIdempotent ==
    output.fn = "sanitizeContent" =>
       /\ output.twice = output.once
       /\ \A i \in 1..Len(output.once) : output.once[i] \notin Marks
       /\ output.once # <<>> =>
             /\ output.once[1] \notin {SP, NL, CR}
             /\ output.once[Len(output.once)] \notin {SP, NL, CR}

\* a string with a mark before its leading white space was sanitized
C26_Witness ==
    /\ output.fn = "sanitizeContent"
    /\ Len(input.content) = 3
    /\ input.content[1] \in Marks
    /\ input.content[2] = SP
    /\ output.once = <<"a">>

\* C27: however onEndReached events and answers of getMessages interleave,
\* the loaded list never holds the same message twice and stays in the
\* order of getMessages.
C27_PagesAppendedOnce ==
    LET all == SelectMessages(store, 1, Cardinality(store.messages), 0)
        place(m) == CHOOSE k \in 1..Len(all) : all[k].id = m.id
    IN \A i, j \in 1..Len(uiMessages) :
          i < j => place(uiMessages[i]) < place(uiMessages[j])

\* C28: a continuation line changes only the content and the rawText of
\* the active message: its id, timestamp, sender, type and isMediaOmitted
\* stay as its head line made them, and the earlier messages, the senders,
\* the warnings and the platform stay as they were.
C28_ContinuationFrame ==
    [][ (/\ currentLineNumber' = currentLineNumber + 1
         /\ platform # "unknown"
         /\ lastMessage # 0
         /\ ~Match(platform, sanitizeContent(rawLine')))
        => /\ Len(messages') = Len(messages)
           /\ \A k \in 1..Len(messages) :
                 /\ k # lastMessage => messages'[k] = messages[k]
                 /\ messages'[k].id = messages[k].id
                 /\ messages'[k].timestamp = messages[k].timestamp
                 /\ messages'[k].rawSender = messages[k].rawSender
                 /\ messages'[k].type = messages[k].type
                 /\ messages'[k].isMediaOmitted = messages[k].isMediaOmitted
                 /\ messages'[k].mediaUri = messages[k].mediaUri
           /\ messages'[lastMessage].content # messages[lastMessage].content
           /\ senders' = senders
           /\ warnings' = warnings
           /\ platform' = platform
           /\ lastMessage' = lastMessage ]_vars

\* a text message was continued by a line that holds a media marker
C28_Witness ==
    \E k \in 1..Len(messages) :
       /\ messages[k].type = "text"
       /\ ~messages[k].isMediaOmitted
       /\ \E i, j \in 1..Len(messages[k].content) :
             /\ i < j
             /\ messages[k].content[i] = NL
             /\ messages[k].content[j] = "<Media omitted>"

\* C29 as claimed: for every window size of at least 1 and every anchor
\* that is a message of the chat, the window holds the anchor.
C29_AnchorInWindow ==
    (/\ lastRead.op = "getMessageNeighborhood"
     /\ lastRead.limit >= 1
     /\ \E m \in store.messages :
           m.id = lastRead.target /\ m.chat_id = lastRead.chatId)
    => \E k \in 1..Len(lastRead.messages) :
          lastRead.messages[k].id = lastRead.target

\* C29, amended: for every window size of at least 2 and every anchor that
\* is a message of the chat, the window holds the anchor.
C29_AnchorInWindowOfTwo ==
    (/\ lastRead.op = "getMessageNeighborhood"
     /\ lastRead.limit >= 2
     /\ \E m \in store.messages :
           m.id = lastRead.target /\ m.chat_id = lastRead.chatId)
    => \E k \in 1..Len(lastRead.messages) :
          /\ lastRead.messages[k].id = lastRead.target
          /\ lastRead.messages[k].chat_id = lastRead.chatId

\* a window of two or more around an anchor that has an older message of
\* its chat before it
C29_Witness ==
    /\ lastRead.op = "getMessageNeighborhood"
    /\ lastRead.limit >= 2
    /\ \E k \in 1..Len(lastRead.messages) :
          lastRead.messages[k].id = lastRead.target
    /\ \E m \in store.messages :
          m.chat_id = lastRead.chatId /\ m.id < lastRead.target

\* C30: any two messages that getMessageNeighborhood returns stand in the
\* same order as getMessages returns them: the id order of the window is
\* the (timestamp, id) order of the pages.
C30_WindowOrderIsPageOrder ==
    lastRead.op = "getMessageNeighborhood" =>
       LET got == lastRead.messages
           all == SelectMessages(store, lastRead.chatId,
                                 Cardinality(store.messages), 0)
           place(m) == CHOOSE k \in 1..Len(all) : all[k].id = m.id
       IN \A i, j \in 1..Len(got) : i < j => place(got[i]) < place(got[j])

====
